---- MODULE Spec2Model ----
(***************************************************************************)
(* renderable.js: the reactive graph of renderable objects.                *)
(*                                                                         *)
(* Every public operation of `Renderable` runs synchronously to completion *)
(* (or until an exception unwinds it), so each one is a single action whose *)
(* effect is computed by recursive operators that follow the JavaScript    *)
(* call graph: invalidate -> Renderable.render -> _internal.render ->      *)
(* the user's render function -> _internal.render of the objects it reads. *)
(* An exception is the field `err` of the threaded state: once it is set,  *)
(* every operator returns the state as it is (nothing in renderable.js     *)
(* catches, and nothing is undone).                                        *)
(***************************************************************************)
EXTENDS Integers, Sequences, FiniteSets, TLC

\* The renderable objects of the page.
Nodes == {"A", "B", "C"}

\* Tracked field values are 0..MaxVal.
MaxVal == 1
\* An object is created with 0..MaxAnchors anchor elements.
MaxAnchors == 1
\* Depth of the JavaScript call stack (RangeError beyond it).
MaxDepth == 14
\* Public calls explored after the page is built.
MaxSteps == 4

VARIABLES
    obj,          \* obj[n]: the object n and its _renderable record
    renderstack,  \* Renderable._internal.renderstack
    reads,        \* reads[n]: the objects n's render function interpolates
    hook,         \* <<r, t>>: r's render function calls Renderable.invalidate(t)
    steps,        \* public calls made since the page was built
    last,         \* outcome of the last public call (history)
    deferred,     \* objects whose tracked field was set while locked (history)
    spawn,        \* <<r, t>>: r's render function creates t before using it
    named,        \* the namespace `render` of named anchors and its objects
    shared,       \* objects extended with the fields of a renderable object
    dom,          \* the child nodes of the anchor elements of one object
    events        \* event listeners, interactive objects and the last event

\* The variables of the parts of the library that are explored on their own.
others == <<named, shared, dom, events>>

vars == <<obj, renderstack, reads, hook, steps, last, deferred, spawn, others>>

----------------------------------------------------------------------------
\* Rendered text.  A render function returns a template string built from the
\* object's tracked field and the outputs of the objects it interpolates.

Html(n, v, parts) == [id |-> n, v |-> v, parts |-> parts]
\* cache / cache_final before the first render
Null == Html("null", 0, <<>>)
\* `${render.x}` when render.x does not exist
Undefined == Html("undefined", 0, <<>>)
\* innerHTML of an anchor element nothing was rendered into
Blank == Html("", 0, <<>>)

Includes(seq, x) == \E i \in 1..Len(seq) : seq[i] = x

Filter(seq, x) == SelectSeq(seq, LAMBDA p : p # x)

\* A render function that invalidates nothing.
NoHook == <<"-", "-">>

\* An object that has not been made renderable yet.
Absent ==
    [exists |-> FALSE, val |-> 0, locked |-> 0, dirty |-> FALSE,
     anchor |-> <<>>, children |-> <<>>, parents |-> <<>>,
     cache |-> Null, cache_final |-> Null, rendering |-> FALSE,
     constructing |-> FALSE, has_anchor |-> FALSE]

Zero == [n \in Nodes |-> 0]

\* The state threaded through one public call.
Begin ==
    [obj |-> obj, renderstack |-> renderstack, err |-> "none",
     execs |-> Zero, patches |-> Zero, hook |-> hook, spawn |-> spawn]

Throw(s, msg) == [s EXCEPT !.err = msg]

Set(s, n, f, v) == [s EXCEPT !.obj[n][f] = v]


----------------------------------------------------------------------------
\* Renderable.isLocked
isLocked(s, n) == s.obj[n].locked # 0

\* The re-entrancy guard of _internal.render.
IsRendering(s, n) == s.obj[n].rendering

\* _internal.render, lines 546-560: the object on top of the render stack is
\* using `n`; it becomes a parent of n, n one of its children, and the anchor
\* flag flows both ways.
\* Variant: the reader is not recorded as parent (lines 549-550 left out).
AddParent_Never(s, n, top) == s

\* Variant: the reader is appended without the includes test of line 549.
AddParent_Always(s, n, top) ==
    Set(s, n, "parents", Append(s.obj[n].parents, top))

AddParent(s, n, top) ==
    IF ~Includes(s.obj[n].parents, top)
    THEN Set(s, n, "parents", Append(s.obj[n].parents, top))
    ELSE s

InheritAnchor(s, n, top) ==
    IF s.obj[top].has_anchor THEN Set(s, n, "has_anchor", TRUE) ELSE s

AddChild(s, n, top) ==
    IF ~Includes(s.obj[top].children, n)
    THEN Set(s, top, "children", Append(s.obj[top].children, n))
    ELSE s

\* Variant: the flag is not passed from the object read to its reader (line
\* 559 left out).
PassAnchor_Never(s, n, top) == s

PassAnchor(s, n, top) ==
    Set(s, top, "has_anchor", s.obj[top].has_anchor \/ s.obj[n].has_anchor)

Register(s, n) ==
    IF Len(s.renderstack) = 0 THEN s
    ELSE PassAnchor(
            AddChild(
              InheritAnchor(
                AddParent(s, n, s.renderstack[Len(s.renderstack)]),
                n, s.renderstack[Len(s.renderstack)]),
              n, s.renderstack[Len(s.renderstack)]),
            n, s.renderstack[Len(s.renderstack)])

\* _internal.render, lines 564-568: remove n as parent from the children of its
\* previous rendering, and clear the children list.
RECURSIVE DetachFrom(_, _, _, _)
DetachFrom(s, n, kids, i) ==
    IF i > Len(kids) THEN s
    ELSE DetachFrom(Set(s, kids[i], "parents",
                        Filter(s.obj[kids[i]].parents, n)),
                    n, kids, i + 1)

\* Variant: the children are forgotten without being told (lines 565-566
\* left out).
Detach_Keep(s, n) == Set(s, n, "children", <<>>)

Detach(s, n) ==
    Set(DetachFrom(s, n, s.obj[n].children, 1), n, "children", <<>>)

\* _internal.render, lines 573-596: store the new output.  The objects of this
\* model are created by Renderable.create, so they carry no id and the final
\* output is the cache itself (line 592).
\* Variant: every render is reported as a change.
Changed_Always(cache, new_html) == TRUE

Changed(cache, new_html) == cache # new_html

Store(s, n, new_html) ==
    [s |-> [s EXCEPT !.obj[n].cache = new_html,
                     !.obj[n].cache_final =
                         IF Changed(s.obj[n].cache, new_html) THEN new_html ELSE @,
                     !.obj[n].dirty = FALSE,
                     !.obj[n].rendering = FALSE],
     html |-> IF Changed(s.obj[n].cache, new_html) THEN new_html
              ELSE s.obj[n].cache_final,
     changed |-> Changed(s.obj[n].cache, new_html)]

\* _internal.replace, seen from outside: the anchor's content becomes the update.
replace(update, a, clone) == update

\* Renderable.render, lines 332-347: write the output into every anchor whose
\* content differs.
RECURSIVE PatchFrom(_, _, _, _)
PatchFrom(s, n, html, i) ==
    IF i > Len(s.obj[n].anchor) THEN s
    ELSE
      LET a == s.obj[n].anchor[i]
          copy == Len(s.obj[n].anchor) > 1
      IN IF html # a
         THEN PatchFrom([s EXCEPT !.obj[n].anchor[i] = replace(html, a, copy),
                                  !.patches[n] = @ + 1],
                        n, html, i + 1)
         ELSE PatchFrom(s, n, html, i + 1)

Patch(s, n, html) == PatchFrom(s, n, html, 1)

\* invalidate, line 421: the anchor flag recomputed from the direct anchors and
\* the registered parents.
\* Variant: the object's own anchors are not counted (line 421 without
\* `anchor.length != 0`).
Observed_Parents(s, n) ==
    \E i \in 1..Len(s.obj[n].parents) :
        s.obj[s.obj[n].parents[i]].has_anchor

Observed(s, n) ==
    \/ Len(s.obj[n].anchor) # 0
    \/ \E i \in 1..Len(s.obj[n].parents) :
          s.obj[s.obj[n].parents[i]].has_anchor

StackOverflow == "Maximum call stack size exceeded"
Fractal == "Fractal rendering occurred!"
Relock == "Tried to lock locked renderable."

RECURSIVE invalidate(_, _, _)
RECURSIVE invalidateAll(_, _, _, _)
RECURSIVE render(_, _, _)
RECURSIVE internal_render(_, _, _)
RECURSIVE readAll(_, _, _, _, _)
RECURSIVE create(_, _, _, _, _, _)

\* The constructor callback of Renderable.create: none, one that sets the
\* tracked field, or one that hands the new object to addFields of another.
NoCtor == <<"none", 0>>

Result(s, html, changed) == [s |-> s, html |-> html, changed |-> changed]

\* The user's render function of n: it may call Renderable.invalidate on an
\* object (the hook of the page), and returns a template string that
\* interpolates its tracked field and the objects of reads[n], in order.
Interpolate(r, seq, i, parts, d) ==
    readAll(r.s, seq, i + 1, Append(parts, r.html), d)

readAll(s, seq, i, parts, d) ==
    IF i > Len(seq) \/ s.err # "none" THEN [s |-> s, parts |-> parts]
    ELSE IF ~s.obj[seq[i]].exists
    THEN readAll(s, seq, i + 1, Append(parts, Undefined), d)
    ELSE Interpolate(internal_render(s, seq[i], d), seq, i, parts, d)

\* Renderable.addFields(obj, fields) with a renderable `fields`, lines
\* 102-107: obj reads the tracked property through a getter that returns
\* fields[name].  Line 103 assigns the undeclared `name` in strict code: with
\* a global `name` (window.name in a browser) the loop runs, without one
\* (Node) it throws a ReferenceError before any property is defined.
Platforms == {"browser", "node"}
ReferenceError == "ReferenceError: name is not defined"
\* shared.of[n] of an object that has fields of its own.
Own == "-"
\* shared.plain[n]: n has no own data property of the field's name; <<v>> is
\* a data property of value v.
NoProperty == <<>>

SharedInit(env) ==
    [env |-> env, of |-> [n \in Nodes |-> Own],
     plain |-> [n \in Nodes |-> NoProperty], arg |-> 0]

\* The object whose field n's render function reads as `this.x`.
Source(n) ==
    IF shared.of[n] # Own /\ shared.env = "browser" THEN shared.of[n] ELSE n

Template(r, n) == Result(r.s, Html(n, r.s.obj[Source(n)].val, r.parts), FALSE)

Creates(s, n, d) ==
    IF s.spawn[1] = n THEN create(s, s.spawn[2], 0, 0, NoCtor, d) ELSE s

userRender(s, n, d) ==
    Template(readAll(IF s.hook[1] = n /\ s.obj[s.hook[2]].exists
                     THEN invalidate([s EXCEPT !.execs[n] = @ + 1], s.hook[2], d)
                     ELSE Creates([s EXCEPT !.execs[n] = @ + 1], n, d),
                     reads[n], 1, <<>>, d),
             n)

\* Renderable.with, lines 208-215 (no pop when `perform` throws).
Pop(r) ==
    IF r.s.err # "none" THEN r
    ELSE [r EXCEPT !.s.renderstack = SubSeq(@, 1, Len(@) - 1)]

with(s, n, d) ==
    Pop(userRender([s EXCEPT !.renderstack = Append(@, n)], n, d))

\* Renderable._internal.render, lines 537-599 (obj.render / obj.toString).
Finish(r, n) ==
    IF r.s.err # "none" THEN Result(r.s, Null, FALSE)
    ELSE Store(r.s, n, r.html)

Cached(s, n) == Result(s, s.obj[n].cache_final, FALSE)

\* Variant: an object whose render is still executing hands out its stale
\* cached output instead of throwing (line 544 left out, dirty tested only
\* outside a render).
internal_render_Reentrant(s, n, d) ==
    IF s.err # "none" THEN Result(s, Null, FALSE)
    ELSE IF d = 0 THEN Result(Throw(s, StackOverflow), Null, FALSE)
    ELSE IF IsRendering(s, n) \/ ~s.obj[n].dirty THEN Cached(Register(s, n), n)
    ELSE Finish(with(Detach(Set(Register(s, n), n, "rendering", TRUE), n),
                     n, d - 1),
                n)

internal_render(s, n, d) ==
    IF s.err # "none" THEN Result(s, Null, FALSE)
    ELSE IF d = 0 THEN Result(Throw(s, StackOverflow), Null, FALSE)
    ELSE IF IsRendering(s, n) THEN Result(Throw(s, Fractal), Null, FALSE)
    ELSE IF ~s.obj[n].dirty THEN Cached(Register(s, n), n)
    ELSE Finish(with(Detach(Set(Register(s, n), n, "rendering", TRUE), n),
                     n, d - 1),
                n)

\* `for(const parent of prev_parents) Renderable.invalidate(parent)` and
\* `parents.forEach(Renderable.invalidate)`.
invalidateAll(s, seq, i, d) ==
    IF i > Len(seq) \/ s.err # "none" THEN s
    ELSE invalidateAll(invalidate(s, seq[i], d), seq, i + 1, d)

\* Variant: a changed output is patched into the anchors, but the previous
\* parents are not invalidated (lines 349-356 left out).
Rendered_Silent(r, n, constructing, prev_parents, d) ==
    IF r.s.err # "none" THEN Result(r.s, Null, FALSE)
    ELSE IF ~r.changed
    THEN Result(IF constructing THEN r.s
                ELSE Set(r.s, n, "parents", prev_parents),
                Null, FALSE)
    ELSE Result(Patch(r.s, n, r.html), Null, TRUE)

\* Renderable.render, lines 312-361.
Rendered(r, n, constructing, prev_parents, d) ==
    IF r.s.err # "none" THEN Result(r.s, Null, FALSE)
    ELSE IF ~r.changed
    THEN Result(IF constructing THEN r.s
                ELSE Set(r.s, n, "parents", prev_parents),
                Null, FALSE)
    ELSE IF constructing THEN Result(Patch(r.s, n, r.html), Null, TRUE)
    ELSE Result(invalidateAll(Patch(r.s, n, r.html), prev_parents, 1, d),
                Null, TRUE)

\* Variant: the lock is not tested (line 316 reads only the dirty flag).
render_Unguarded(s, n, d) ==
    IF s.err # "none" THEN Result(s, Null, FALSE)
    ELSE IF d = 0 THEN Result(Throw(s, StackOverflow), Null, FALSE)
    ELSE IF ~s.obj[n].dirty THEN Result(s, Null, FALSE)
    ELSE Rendered(internal_render(IF ~s.obj[n].constructing
                                  THEN Set(s, n, "parents", <<>>)
                                  ELSE s,
                                  n, d - 1),
                  n, s.obj[n].constructing, s.obj[n].parents, d - 1)

render(s, n, d) ==
    IF s.err # "none" THEN Result(s, Null, FALSE)
    ELSE IF d = 0 THEN Result(Throw(s, StackOverflow), Null, FALSE)
    ELSE IF isLocked(s, n) \/ ~s.obj[n].dirty THEN Result(s, Null, FALSE)
    ELSE Rendered(internal_render(IF ~s.obj[n].constructing
                                  THEN Set(s, n, "parents", <<>>)
                                  ELSE s,
                                  n, d - 1),
                  n, s.obj[n].constructing, s.obj[n].parents, d - 1)

\* Variant: the test of `constructing` (lines 410-411) is missing.
invalidate_Constructing(s, n, d) ==
    IF s.err # "none" THEN s
    ELSE IF d = 0 THEN Throw(s, StackOverflow)
    ELSE IF isLocked(s, n) THEN Set(s, n, "dirty", TRUE)
    ELSE IF s.obj[n].has_anchor
    THEN render(Set(Set(s, n, "dirty", TRUE), n, "has_anchor", Observed(s, n)),
                n, d - 1).s
    ELSE invalidateAll(Set(s, n, "dirty", TRUE), s.obj[n].parents, 1, d - 1)

\* Variant: line 413 (`dirty = true`) is skipped on the branch without anchor.
invalidate_Clean(s, n, d) ==
    IF s.err # "none" THEN s
    ELSE IF d = 0 THEN Throw(s, StackOverflow)
    ELSE IF s.obj[n].constructing THEN s
    ELSE IF isLocked(s, n) THEN Set(s, n, "dirty", TRUE)
    ELSE IF s.obj[n].has_anchor
    THEN render(Set(Set(s, n, "dirty", TRUE), n, "has_anchor", Observed(s, n)),
                n, d - 1).s
    ELSE invalidateAll(s, s.obj[n].parents, 1, d - 1)

\* Variant: the `else` of line 423 is missing; the parents registered after
\* the render are invalidated as well.
Bubble(s, n, d) == invalidateAll(s, s.obj[n].parents, 1, d)

invalidate_Both(s, n, d) ==
    IF s.err # "none" THEN s
    ELSE IF d = 0 THEN Throw(s, StackOverflow)
    ELSE IF s.obj[n].constructing THEN s
    ELSE IF isLocked(s, n) THEN Set(s, n, "dirty", TRUE)
    ELSE IF s.obj[n].has_anchor
    THEN Bubble(render(Set(Set(s, n, "dirty", TRUE), n, "has_anchor",
                           Observed(s, n)),
                       n, d - 1).s,
                n, d - 1)
    ELSE invalidateAll(Set(s, n, "dirty", TRUE), s.obj[n].parents, 1, d - 1)

\* Variant: the branch without anchor does not notify the parents (lines
\* 423-426 left out).
invalidate_Alone(s, n, d) ==
    IF s.err # "none" THEN s
    ELSE IF d = 0 THEN Throw(s, StackOverflow)
    ELSE IF s.obj[n].constructing THEN s
    ELSE IF isLocked(s, n) THEN Set(s, n, "dirty", TRUE)
    ELSE IF s.obj[n].has_anchor
    THEN render(Set(Set(s, n, "dirty", TRUE), n, "has_anchor", Observed(s, n)),
                n, d - 1).s
    ELSE Set(s, n, "dirty", TRUE)

\* Renderable.invalidate, lines 407-427.
invalidate(s, n, d) ==
    IF s.err # "none" THEN s
    ELSE IF d = 0 THEN Throw(s, StackOverflow)
    ELSE IF s.obj[n].constructing THEN s
    ELSE IF isLocked(s, n) THEN Set(s, n, "dirty", TRUE)
    ELSE IF s.obj[n].has_anchor
    THEN render(Set(Set(s, n, "dirty", TRUE), n, "has_anchor", Observed(s, n)),
                n, d - 1).s
    ELSE invalidateAll(Set(s, n, "dirty", TRUE), s.obj[n].parents, 1, d - 1)

\* Renderable.lock, lines 378-386.
lock(s, n) ==
    IF isLocked(s, n) THEN Throw(s, Relock)
    ELSE Set(s, n, "locked", s.obj[n].locked + 1)

\* Renderable.unlock, lines 392-401.
Unlocked(s, n, d) ==
    IF s.obj[n].locked = 0 /\ ~s.obj[n].constructing /\ s.obj[n].dirty
    THEN render(s, n, d).s
    ELSE s

unlock(s, n, d) ==
    IF isLocked(s, n)
    THEN Unlocked(Set(s, n, "locked", s.obj[n].locked - 1), n, d)
    ELSE s

\* Renderable.enable followed by Renderable.addFields, lines 128-206, 69-110.
enable(s, n, v, k) ==
    [s EXCEPT !.obj[n] =
        [exists |-> TRUE, val |-> v, locked |-> 0, dirty |-> TRUE,
         anchor |-> [i \in 1..k |-> Blank],
         children |-> <<>>, parents |-> <<>>,
         cache |-> Null, cache_final |-> Null, rendering |-> FALSE,
         constructing |-> TRUE,
         has_anchor |-> (k # 0) \/ (Len(s.renderstack) # 0
                           /\ s.obj[s.renderstack[Len(s.renderstack)]].has_anchor)]]

\* The tracked-field setter installed by addFields, lines 90-97.
setField(s, n, v, d) ==
    IF s.obj[n].val # v
    THEN invalidate(Set(s, n, "val", v), n, d)
    ELSE s

\* Renderable.addFields(p, n), lines 74-78: n becomes a child of p.
adopt(s, p, n) ==
    [s EXCEPT !.obj[p].children = Append(@, n),
              !.obj[n].parents = Append(@, p)]

\* Renderable.create, lines 263-266: the constructor callback runs with the
\* new object on the render stack.
Unwind(s) ==
    IF s.err # "none" THEN s
    ELSE [s EXCEPT !.renderstack = SubSeq(@, 1, Len(@) - 1)]

construct(s, n, c, d) ==
    IF c[1] = "set"
    THEN Unwind(setField([s EXCEPT !.renderstack = Append(@, n)], n, c[2], d))
    ELSE IF c[1] = "adopt" THEN adopt(s, c[2], n)
    ELSE s

\* Renderable.create, lines 252-270.
Constructed(r, n) ==
    IF r.s.err # "none" THEN r.s
    ELSE Set(r.s, n, "constructing", FALSE)

create(s, n, v, k, c, d) ==
    Constructed(render(construct(enable(s, n, v, k), n, c, d), n, d), n)

\* Renderable.addFields(obj, fields) with a renderable `fields`, lines 69-110:
\* the link of lines 74-78, no enumerable property to copy (tracked
\* properties are defined non-enumerable, lines 87-98), then line 103.
addFieldsFrom(s, n, f, env) ==
    IF env = "node" THEN Throw(adopt(s, n, f), ReferenceError)
    ELSE adopt(s, n, f)

\* Renderable.create(fields, params) with a renderable `fields`, lines 252-270.
createFrom(s, n, f, k, env, d) ==
    Constructed(render(addFieldsFrom(enable(s, n, s.obj[f].val, k), n, f, env),
                       n, d),
                n)

\* `obj.x = v` on an object extended with the fields of f.  With the
\* property of line 104 the setter is the arrow function of line 106, which
\* returns a function and assigns nothing; without it (addFields threw) the
\* assignment creates a plain own property.
assignThrough(sh, n, v) ==
    IF sh.env = "browser" THEN [sh EXCEPT !.arg = v]
    ELSE [sh EXCEPT !.arg = v, !.plain[n] = <<v>>]

\* `obj.x` read through an object extended with the fields of f, line 105:
\* <<v>>, or <<>> for undefined.
Seen(o, sh, n) ==
    IF sh.of[n] = Own THEN <<o[n].val>>
    ELSE IF sh.env = "browser" THEN <<o[sh.of[n]].val>>
    ELSE sh.plain[n]

----------------------------------------------------------------------------
\* The document.  A node is a record with its identity and its live
\* `checked` property; markup is the same tree without them.
\* `element.innerHTML = html` creates new nodes, reading innerHTML serializes
\* them.

\* An object is rendered into 1..MaxCopies anchor elements.
MaxCopies == 2
\* Calls that write into the anchors.
MaxRenders == 2

AttrNames == {"class", "checked"}
\* The attributes of _internal.specialAttrs (lines 431-448) in this model.
SpecialAttrs == {"checked"}
\* getNamedItem(name) of an attribute the element does not have
NoAttr == "-"
NoAttrs == [a \in AttrNames |-> NoAttr]
\* nodeValue of an element
NoValue == "null"

Text(v) ==
    [type |-> "text", tag |-> "#text", attrs |-> NoAttrs, value |-> v,
     kids |-> <<>>]

Element(tag, class, kids) ==
    [type |-> "element", tag |-> tag,
     attrs |-> [NoAttrs EXCEPT !["class"] = class],
     value |-> NoValue, kids |-> kids]

\* <input type=checkbox>, with or without the attribute `checked`.
Input(checked) ==
    [type |-> "element", tag |-> "input",
     attrs |-> [NoAttrs EXCEPT !["checked"] = checked],
     value |-> NoValue, kids |-> <<>>]

\* The nodes a render function of this model puts at the top of its output.
Markup ==
    {Text("a"), Text("b"),
     Element("li", NoAttr, <<>>),
     Element("li", NoAttr, <<Text("a")>>),
     Element("li", "x", <<Text("a")>>),
     Element("p", NoAttr, <<Text("a")>>),
     Input(NoAttr), Input(""),
     Element("ul", NoAttr, <<Element("li", NoAttr, <<Text("a")>>),
                             Element("li", NoAttr, <<Text("b")>>)>>),
     Element("ul", NoAttr, <<Element("li", NoAttr, <<Text("a")>>),
                             Element("li", NoAttr, <<Text("c")>>)>>)}

\* The nodes that follow another node at the top of an output.
Tails == {Text("a"), Element("li", NoAttr, <<Text("a")>>), Input("")}

\* The outputs of a render function: up to two top-level nodes.
Fragments ==
    {<<>>} \cup {<<a>> : a \in Markup}
           \cup {<<a, b>> : a \in Markup, b \in Tails}

\* parsed.innerHTML = html, line 340: the p-th parse of the page makes nodes
\* no other parse made.
RECURSIVE parseNode(_, _, _)
parseNode(m, p, path) ==
    [id |-> [parse |-> p, path |-> path, copy |-> 0, made |-> "parsed"],
     checked |-> m.attrs["checked"] # NoAttr,
     type |-> m.type, tag |-> m.tag, attrs |-> m.attrs, value |-> m.value,
     kids |-> [i \in 1..Len(m.kids) |->
                  parseNode(m.kids[i], p, Append(path, i))]]

parse(html, p) == [i \in 1..Len(html) |-> parseNode(html[i], p, <<i>>)]

RECURSIVE outerHTML(_)
outerHTML(n) ==
    [type |-> n.type, tag |-> n.tag, attrs |-> n.attrs, value |-> n.value,
     kids |-> [i \in 1..Len(n.kids) |-> outerHTML(n.kids[i])]]

innerHTML(kids) == [i \in 1..Len(kids) |-> outerHTML(kids[i])]

\* cu.cloneNode(true), lines 465 and 522: the copy made for anchor j.
RECURSIVE cloneNode(_, _)
cloneNode(n, j) ==
    [id |-> [n.id EXCEPT !.copy = j, !.made = "clone"],
     checked |-> n.checked,
     type |-> n.type, tag |-> n.tag, attrs |-> n.attrs, value |-> n.value,
     kids |-> [i \in 1..Len(n.kids) |-> cloneNode(n.kids[i], j)]]

\* Variant: the update is inserted itself although `clone` is set.
Inserted_Moved(cu, clone, j) == cu

\* clone ? cu.cloneNode(true) : cu
Inserted(cu, clone, j) == IF clone THEN cloneNode(cu, j) ELSE cu

\* Lines 469-477: an element of another tag name takes over the children.
Retagged(ca, cu, j) ==
    IF ca.tag # cu.tag
    THEN [id |-> [cu.id EXCEPT !.copy = j, !.made = "dummy"],
          checked |-> FALSE,
          type |-> "element", tag |-> cu.tag, attrs |-> NoAttrs,
          value |-> NoValue, kids |-> ca.kids]
    ELSE ca

\* boolAttr("checked"), lines 432-443.
boolAttr(e) ==
    IF e.attrs["checked"] \in {NoAttr, "false"} THEN [e EXCEPT !.checked = FALSE]
    ELSE IF e.attrs["checked"] \in {"", "true", "checked"}
    THEN [e EXCEPT !.checked = TRUE]
    ELSE e

\* handler?.(ca), lines 485-486 and 504-505.
Handled(e, called) == IF called THEN boolAttr(e) ELSE e

\* Lines 479-488: remove the attributes that are not in the update.
Removed(ca, cu) ==
    Handled([ca EXCEPT !.attrs =
                [a \in AttrNames |->
                    IF cu.attrs[a] = NoAttr THEN NoAttr ELSE @[a]]],
            \E a \in SpecialAttrs :
                ca.attrs[a] # NoAttr /\ cu.attrs[a] = NoAttr)

\* Lines 490-506: add or set the attributes of the update.
Added(ca, cu) ==
    Handled([ca EXCEPT !.attrs =
                [a \in AttrNames |->
                    IF cu.attrs[a] # NoAttr /\ @[a] # cu.attrs[a]
                    THEN cu.attrs[a]
                    ELSE @[a]]],
            \E a \in SpecialAttrs : cu.attrs[a] # NoAttr)

RECURSIVE internal_replace(_, _, _, _)

\* Lines 508-511: recurse when the serialized contents differ.
Contents(ca, cu, clone, j) ==
    IF innerHTML(ca.kids) # innerHTML(cu.kids)
    THEN [ca EXCEPT !.kids = internal_replace(cu.kids, @, clone, j)]
    ELSE ca

\* Variant: a paired element is replaced whenever it differs from the update.
Paired_Swap(cu, ca, clone, j) ==
    IF outerHTML(ca) # outerHTML(cu) THEN Inserted(cu, clone, j) ELSE ca

\* Lines 457-519: one round of the first loop, the node left at ca's place.
Paired(cu, ca, clone, j) ==
    IF ca.type # cu.type \/ ca.value # cu.value THEN Inserted(cu, clone, j)
    ELSE IF ca.type = "element"
    THEN Contents(Added(Removed(Retagged(ca, cu, j), cu), cu), cu, clone, j)
    ELSE ca

\* Variant: the loop of lines 527-532 is missing.
Length_Longest(update, anchor) ==
    IF Len(update) > Len(anchor) THEN Len(update) ELSE Len(anchor)

\* Lines 520-532: the children that are left over in the update are appended,
\* those left over in the anchor are removed.
Length(update, anchor) == Len(update)

\* Renderable._internal.internal_replace(update, anchor, clone), lines 451-534, for
\* the j-th anchor: the child nodes of the anchor afterwards.
internal_replace(update, anchor, clone, j) ==
    [i \in 1..Length(update, anchor) |->
        IF i > Len(update) THEN anchor[i]
        ELSE IF i <= Len(anchor) THEN Paired(update[i], anchor[i], clone, j)
        ELSE Inserted(update[i], clone, j)]

\* Renderable.render, lines 343-347, for the anchors j..Len(anchors).
Patched(parsed, html, anchor, j, copy) ==
    IF html # innerHTML(anchor) THEN internal_replace(parsed, anchor, copy, j)
    ELSE anchor

\* The cache of an object that was never rendered, and of one whose output
\* is html.
NoHtml == <<>>
Cache(html) == <<html>>

DomInit(k) ==
    [anchor |-> [j \in 1..k |-> <<>>], cache |-> NoHtml, parses |-> 0,
     op |-> "load", html |-> <<>>, to |-> 0, clone |-> FALSE,
     was |-> [j \in 1..k |-> <<>>]]

\* Renderable.render, lines 326-347, of an object whose render function
\* returns html.
renderAnchors(d, html) ==
    IF d.cache = Cache(html) THEN d
    ELSE [d EXCEPT !.cache = Cache(html),
                   !.parses = @ + 1,
                   !.anchor = [j \in 1..Len(@) |->
                                  Patched(parse(html, d.parses + 1), html,
                                          @[j], j, Len(@) > 1)]]

\* The user clicks the checkbox that is the i-th child of the j-th anchor.
click(d, j, i) == [d EXCEPT !.anchor[j][i].checked = ~@]

\* Renderable._internal.replace called with a fragment parsed from html.
replaceAnchor(d, html, j, clone) ==
    [d EXCEPT !.parses = @ + 1,
              !.anchor[j] = internal_replace(parse(html, d.parses + 1), @, clone, j)]

----------------------------------------------------------------------------
\* Events.  Renderable.createInteractive numbers its objects and keeps a
\* WeakRef to each in _internal.uniqueRenderables; _internal.render writes
\* the number into data-renderable-id of the top-level elements of the
\* output (lines 579-588); one listener per event type routes an event from
\* its target upwards (lines 721-773).

\* Interactive objects are numbered 1..MaxNodes in the order of creation.
MaxNodes == 2
Numbers == 1..MaxNodes
\* `undefined` where an object is expected.
NoNode == 0

EventTypes == {"click", "keydown"}
\* What the handler of an object returns; "none": the object has no handler.
Returns == {"truthy", "falsy"}
NoHandler == [type |-> "-", ret |-> "none"]

\* data-renderable-id of an element: a list of numbers without repetition.
IdLists ==
    {<<>>} \cup {<<a>> : a \in Numbers}
           \cup {p \in Numbers \X Numbers : p[1] # p[2]}

Range(f) == {f[i] : i \in DOMAIN f}

\* The target of an event and its ancestors, innermost first, each with its
\* list: an object's output is not nested in itself, so its number is on one
\* element of the path at most.
Paths ==
    {<<a>> : a \in IdLists}
    \cup {p \in IdLists \X IdLists :
             p[2] # <<>> /\ Range(p[1]) \cap Range(p[2]) = {}}

Unborn == [made |-> FALSE, on |-> NoHandler, up |-> NoNode]

EventsInit ==
    [listeners |-> [t \in EventTypes |-> [installed |-> FALSE,
                                          fallback |-> NoNode]],
     document |-> [t \in EventTypes |-> 0],
     registry |-> [i \in Numbers |-> "absent"],
     node |-> [i \in Numbers |-> Unborn],
     counter |-> 0,
     op |-> "load", type |-> "-", path |-> <<>>,
     log |-> <<>>, prevented |-> FALSE]

\* Variant: a strong reference, which keeps resolving a collected object.
Deref_Strong(ev, id) == IF ev.registry[id] # "absent" THEN id ELSE NoNode

\* uniqueRenderables[id]?.deref(), line 735.
Deref(ev, id) == IF ev.registry[id] = "live" THEN id ELSE NoNode

\* renderable ?? r, lines 736 and 757.
Coalesce(renderable, r) == IF renderable # NoNode THEN renderable ELSE r

\* r?._renderable.events[e.type], lines 737 and 758.
HasHandler(ev, r, type) == r # NoNode /\ ev.node[r].on.type = type

\* Variant: bubbled tells whether the identity was found on an ancestor of
\* the target.
Bubbled_Ancestor(r, renderable, k) == k > 1

\* bubbled: r != renderable, line 744.
Bubbled(r, renderable, k) == r # renderable

\* The argument of a handler call, lines 738-745 and 759-764; root is the
\* position of the element on the path (0: none).
Invocation(r, scope, bubbled, root, phase) ==
    [node |-> r, scope |-> scope, bubbled |-> bubbled, root |-> root,
     phase |-> phase]

\* The identities on the path in the order of the two loops of lines 733-734.
RECURSIVE Flat(_, _)
Flat(path, k) ==
    IF k > Len(path) THEN <<>>
    ELSE [i \in 1..Len(path[k]) |-> [id |-> path[k][i], root |-> k]]
         \o Flat(path, k + 1)

Outcome(log, prevented) == [log |-> log, prevented |-> prevented]

\* Lines 753-769: the fallback object and the last parent of each in turn.
RECURSIVE fallbackChain(_, _, _, _, _)
fallbackChain(ev, type, r, renderable, log) ==
    IF r = NoNode THEN Outcome(log, FALSE)
    ELSE IF HasHandler(ev, r, type)
    THEN IF ev.node[r].on.ret = "falsy"
         THEN Outcome(Append(log, Invocation(r, Coalesce(renderable, r), TRUE,
                                             0, "fallback")),
                      TRUE)
         ELSE fallbackChain(ev, type, ev.node[r].up, Coalesce(renderable, r),
                            Append(log, Invocation(r, Coalesce(renderable, r),
                                                   TRUE, 0, "fallback")))
    ELSE fallbackChain(ev, type, ev.node[r].up, Coalesce(renderable, r), log)

RECURSIVE walk(_, _, _, _, _, _)

\* Variant: the result of a handler is ignored (lines 746-749 left out).
walk_Deaf(ev, type, flat, i, renderable, log) ==
    IF i > Len(flat)
    THEN fallbackChain(ev, type, ev.listeners[type].fallback, renderable, log)
    ELSE IF HasHandler(ev, Deref(ev, flat[i].id), type)
    THEN walk(ev, type, flat, i + 1, Coalesce(renderable, flat[i].id),
              Append(log,
                     Invocation(flat[i].id, Coalesce(renderable, flat[i].id),
                                Bubbled(flat[i].id,
                                        Coalesce(renderable, flat[i].id),
                                        flat[i].root),
                                flat[i].root, "walk")))
    ELSE walk(ev, type, flat, i + 1,
              Coalesce(renderable, Deref(ev, flat[i].id)), log)

\* Lines 733-751: the walk from the target upwards.
walk(ev, type, flat, i, renderable, log) ==
    IF i > Len(flat)
    THEN fallbackChain(ev, type, ev.listeners[type].fallback, renderable, log)
    ELSE IF HasHandler(ev, Deref(ev, flat[i].id), type)
    THEN IF ev.node[flat[i].id].on.ret = "falsy"
         THEN Outcome(
                Append(log,
                       Invocation(flat[i].id,
                                  Coalesce(renderable, flat[i].id),
                                  Bubbled(flat[i].id,
                                          Coalesce(renderable, flat[i].id),
                                          flat[i].root),
                                  flat[i].root, "walk")),
                TRUE)
         ELSE walk(ev, type, flat, i + 1, Coalesce(renderable, flat[i].id),
                   Append(log,
                          Invocation(flat[i].id,
                                     Coalesce(renderable, flat[i].id),
                                     Bubbled(flat[i].id,
                                             Coalesce(renderable, flat[i].id),
                                             flat[i].root),
                                     flat[i].root, "walk")))
    ELSE walk(ev, type, flat, i + 1,
              Coalesce(renderable, Deref(ev, flat[i].id)), log)

\* listeners[name].handler, lines 730-770.
handler(ev, type, path) == walk(ev, type, Flat(path, 1), 1, NoNode, <<>>)

\* Variant: the test of lines 727-728 (`name in listeners`) is left out.
listenForEvents_Again(ev, type) ==
    IF type \notin EventTypes THEN ev
    ELSE [ev EXCEPT !.listeners[type] = [installed |-> TRUE,
                                         fallback |-> NoNode],
                    !.document[type] = @ + 1]

\* Renderable.listenForEvents([type]), lines 721-773.  `document` counts the
\* functions added to the document for the type (line 771) and not removed.
listenForEvents(ev, type) ==
    IF type \notin EventTypes \/ ev.listeners[type].installed THEN ev
    ELSE [ev EXCEPT !.listeners[type] = [installed |-> TRUE,
                                         fallback |-> NoNode],
                    !.document[type] = @ + 1]

\* Renderable.unlistenEvents([type]), lines 775-781.
unlistenEvents(ev, type) ==
    [ev EXCEPT !.listeners[type] = [installed |-> FALSE, fallback |-> NoNode],
               !.document[type] = IF ev.listeners[type].installed
                                  THEN @ - 1 ELSE @]

\* Renderable.unlistenAllEvents, lines 783-785.
unlistenAllEvents(ev) ==
    [ev EXCEPT !.listeners = [t \in EventTypes |-> [installed |-> FALSE,
                                                    fallback |-> NoNode]],
               !.document = [t \in EventTypes |->
                                IF ev.listeners[t].installed
                                THEN @[t] - 1 ELSE @[t]]]

\* Renderable.fallback(event_type, renderable), lines 226-230.
fallback(ev, type, r) ==
    IF ev.listeners[type].installed
    THEN [ev EXCEPT !.listeners[type].fallback = r]
    ELSE ev

\* Renderable.createInteractive, lines 275-303, with enable's lines 178-183:
\* the new object listens for the type of its handler and is registered.
createInteractive(ev, on, up) ==
    [listenForEvents(ev, on.type) EXCEPT
        !.counter = @ + 1,
        !.registry[ev.counter + 1] = "live",
        !.node[ev.counter + 1] = [made |-> TRUE, on |-> on, up |-> up]]

\* The objects kept alive by r: r and the chain of last parents.
RECURSIVE Chain(_, _)
Chain(ev, r) == IF r = NoNode THEN {} ELSE {r} \cup Chain(ev, ev.node[r].up)

\* The garbage collector may collect an object nothing refers to.
Collectable(ev, i) ==
    /\ ev.registry[i] = "live"
    /\ \A t \in EventTypes : i \notin Chain(ev, ev.listeners[t].fallback)
    /\ \A j \in Numbers : ev.registry[j] = "live" => ev.node[j].up # i

\* The interval of lines 796-803: drop the entries whose object is gone.
sweep(ev) ==
    [ev EXCEPT !.registry = [i \in Numbers |->
                                IF @[i] = "dead" THEN "absent" ELSE @[i]]]

----------------------------------------------------------------------------
\* Named anchors.  `const render = {}` (line 39) maps an anchor name to the
\* object enabled with it; Renderable.enable fills it (lines 128-151).

AnchorNames == {"x", "y", "toString"}
\* Keys `render` inherits from Object.prototype: `name in render` holds for
\* them although nothing was registered.
ProtoNames == {"toString"}
\* params.anchor is absent or an element, not a string.
NoName == "-"
\* render[name] of a name that has no own entry.
NoObject == "-"

Duplicate == "Duplicate renderable detected!"
AlreadyRenderable == "Object must not yet be renderable."
NoRenderFunction == "Expected 'render' function in params."
HasRender == "Object must not yet have a 'render' function."

\* A plain object: no _renderable, no own `render` property.
Plain ==
    [renderable |-> FALSE, render |-> FALSE, anchor |-> NoName,
     constructing |-> FALSE]

NamedInit ==
    [render |-> [a \in AnchorNames |-> NoObject],
     own |-> [n \in Nodes |-> Plain],
     op |-> "load", node |-> "-", anchor |-> NoName, err |-> "none"]

\* `name in render`, line 146.
In(a, reg) == a \in ProtoNames \/ reg[a] # NoObject

\* render[params.anchor] = obj, line 149.
Registered(reg, a, n) == IF a = NoName THEN reg ELSE [reg EXCEPT ![a] = n]

\* Variant: the check of lines 146-147 is missing.
enableNamed_Overwrite(nm, n, a, ok) ==
    IF nm.own[n].renderable THEN [nm EXCEPT !.err = AlreadyRenderable]
    ELSE IF ~ok THEN [nm EXCEPT !.err = NoRenderFunction]
    ELSE IF nm.own[n].render THEN [nm EXCEPT !.err = HasRender]
    ELSE [nm EXCEPT !.render = Registered(@, a, n),
                    !.own[n] = [renderable |-> TRUE, render |-> TRUE,
                                anchor |-> a, constructing |-> TRUE]]

\* Renderable.enable(obj, params) with params.anchor = a, lines 128-166; ok:
\* params.render is a function.
enableNamed(nm, n, a, ok) ==
    IF nm.own[n].renderable THEN [nm EXCEPT !.err = AlreadyRenderable]
    ELSE IF ~ok THEN [nm EXCEPT !.err = NoRenderFunction]
    ELSE IF nm.own[n].render THEN [nm EXCEPT !.err = HasRender]
    ELSE IF a # NoName /\ In(a, nm.render)
    THEN [nm EXCEPT !.own[n].render = TRUE, !.err = Duplicate]
    ELSE [nm EXCEPT !.render = Registered(@, a, n),
                    !.own[n] = [renderable |-> TRUE, render |-> TRUE,
                                anchor |-> a, constructing |-> TRUE]]

\* delete r._renderable.constructing, line 268; skipped when enable threw.
ConstructedNamed(nm, n) ==
    IF nm.err # "none" THEN nm ELSE [nm EXCEPT !.own[n].constructing = FALSE]

\* Renderable.create(fields, params, untracked) with untracked = n, lines
\* 252-270: `delete base.render`, then enable.
createNamed(nm, n, a, ok) ==
    ConstructedNamed(enableNamed([nm EXCEPT !.own[n].render = FALSE], n, a, ok),
                     n)

\* The call that is made on `named`.
Called(nm, op, n, a) ==
    [nm EXCEPT !.op = op, !.node = n, !.anchor = a, !.err = "none"]

----------------------------------------------------------------------------
Call(s, op, n, ret) ==
    /\ steps < MaxSteps
    /\ steps' = steps + 1
    /\ obj' = s.obj
    /\ renderstack' = s.renderstack
    /\ last' = [op |-> op, node |-> n, err |-> s.err, ret |-> ret,
                execs |-> s.execs, patches |-> s.patches]
    /\ deferred' = IF op = "set" /\ obj[n].locked # 0 THEN deferred \cup {n}
                   ELSE IF op = "unlock" /\ s.obj[n].locked = 0
                   THEN deferred \ {n}
                   ELSE deferred
    /\ UNCHANGED <<reads, hook, spawn>>

Commit(s, op, n, ret) == Call(s, op, n, ret) /\ UNCHANGED others

Returned(r, op, n) == Commit(r.s, op, n, r.changed /\ r.s.err = "none")

\* The parts explored on their own are idle.
Elsewhere ==
    /\ named = NamedInit
    /\ shared = SharedInit("browser")
    /\ dom = DomInit(1)
    /\ events = EventsInit

\* The page as its script leaves it; `last` reports the script's last create.
Loaded(s, n) ==
    /\ obj = s.obj
    /\ renderstack = s.renderstack
    /\ last = [op |-> "create", node |-> n, err |-> s.err, ret |-> FALSE,
               execs |-> s.execs, patches |-> s.patches]

\* A render function interpolates the objects it uses in a fixed textual order.
Order == <<"A", "B", "C">>
SeqOf(S) == SelectSeq(Order, LAMBDA x : x \in S)

\* The page's script: Renderable.create for every object, one after the other;
\* a create that throws leaves its object behind, still constructing.
RECURSIVE Built(_, _, _, _)
Built(s, script, ks, i) ==
    IF i > Len(script) THEN s
    ELSE Built(create([s EXCEPT !.err = "none"], script[i], 0,
                      ks[script[i]], NoCtor, MaxDepth),
               script, ks, i + 1)

Empty(h) ==
    [obj |-> [n \in Nodes |-> Absent], renderstack |-> <<>>, err |-> "none",
     execs |-> Zero, patches |-> Zero, hook |-> h, spawn |-> NoHook]

----------------------------------------------------------------------------
\* The pages explored: which objects each render function interpolates, the
\* order in which the script creates the objects, and their anchors.

Graph(a, b, c) == [n \in Nodes |-> CASE n = "A" -> a [] n = "B" -> b [] n = "C" -> c]

Page(g, script, ks, h) == [g |-> g, script |-> script, ks |-> ks, hook |-> h]

Created(script) == {script[i] : i \in 1..Len(script)}

\* Every way of giving the created objects 0..MaxAnchors anchors each.
AnyAnchors(script) ==
    {ks \in [Nodes -> 0..MaxAnchors] : \A n \in Nodes \ Created(script) : ks[n] = 0}

\* All anchored, none anchored, or only the outermost object A.
SomeAnchors(script) ==
    UNION {{[n \in Nodes |-> IF n \in Created(script) THEN k ELSE 0],
            [n \in Nodes |-> IF n = "A" THEN k ELSE 0]} : k \in 1..MaxAnchors}
    \cup {[n \in Nodes |-> 0]}

\* Two objects (C is never created).
Small ==
    {<<Graph({"B"}, {}, {}), <<"B", "A">>>>,      \* A uses B
     <<Graph({"B"}, {}, {}), <<"A", "B">>>>,      \* A uses B, created late
     <<Graph({"B"}, {"A"}, {}), <<"A", "B">>>>,   \* cycle of length 2
     <<Graph({"A", "B"}, {}, {}), <<"B", "A">>>>} \* cycle of length 1

\* Three objects.
Large ==
    {<<Graph({"B", "C"}, {}, {"B"}), <<"B", "C", "A">>>>,   \* diamond
     <<Graph({"B", "C"}, {}, {"B"}), <<"B", "A", "C">>>>,
     <<Graph({"B"}, {"C"}, {}), <<"C", "B", "A">>>>,        \* chain
     <<Graph({"B"}, {}, {}), <<"B", "A", "C">>>>,           \* C unrelated
     <<Graph({"B"}, {}, {"B"}), <<"B", "A", "C">>>>,        \* B used twice
     <<Graph({"B"}, {}, {"B"}), <<"B", "C", "A">>>>,
     <<Graph({"B"}, {"C"}, {"A"}), <<"A", "B", "C">>>>}     \* cycle of length 3

\* Render functions that invalidate an object while they run.
Hooked == {<<Graph({"B"}, {}, {}), <<"B", "A">>>>}
Hooks == {"A", "B"} \X {"A", "B"}

Pages ==
    {Page(p[1], p[2], ks, NoHook) : p \in Small, ks \in AnyAnchors(<<"A", "B">>)}
    \cup UNION {{Page(p[1], p[2], ks, NoHook) : ks \in SomeAnchors(p[2])} : p \in Large}
    \cup {Page(p[1], p[2], ks, h) :
            p \in Hooked, ks \in AnyAnchors(<<"A", "B">>), h \in Hooks}

Init ==
    \E p \in Pages :
        /\ Elsewhere
        /\ reads = [n \in Nodes |-> SeqOf(p.g[n])]
        /\ hook = p.hook
        /\ Loaded(Built(Empty(p.hook), p.script, p.ks, 1), p.script[Len(p.script)])
        /\ steps = 0
        /\ deferred = {}
        /\ spawn = NoHook

SetField(n, v) ==
    /\ obj[n].exists
    /\ obj[n].val # v
    /\ Commit(setField(Begin, n, v, MaxDepth), "set", n, FALSE)

Invalidate(n) ==
    /\ obj[n].exists
    /\ Commit(invalidate(Begin, n, MaxDepth), "invalidate", n, FALSE)

Render(n) ==
    /\ obj[n].exists
    /\ Returned(render(Begin, n, MaxDepth), "render", n)

RenderDirect(n) ==
    /\ obj[n].exists
    /\ Returned(internal_render(Begin, n, MaxDepth), "toString", n)

Lock(n) ==
    /\ obj[n].exists
    /\ Commit(lock(Begin, n), "lock", n, FALSE)

Unlock(n) ==
    /\ obj[n].exists
    /\ Commit(unlock(Begin, n, MaxDepth), "unlock", n, FALSE)

Next ==
    \E n \in Nodes :
        \/ \E v \in 0..MaxVal : SetField(n, v)
        \/ Invalidate(n)
        \/ Render(n)
        \/ RenderDirect(n)
        \/ Lock(n)
        \/ Unlock(n)

Spec == Init /\ [][Next]_vars

----------------------------------------------------------------------------
\* Construction explored call by call: the page starts without objects, and
\* the script creates them with Renderable.create (with or without a
\* constructor callback) or with Renderable.enable and addFields alone.

CreatePages ==
    {[g |-> Graph({"B"}, {}, {}), spawn |-> NoHook],
     [g |-> Graph({"B", "C"}, {}, {}), spawn |-> <<"A", "C">>],
     [g |-> Graph({"B"}, {"C"}, {}), spawn |-> <<"B", "C">>]}

InitCreate ==
    \E p \in CreatePages :
        /\ Elsewhere
        /\ reads = [n \in Nodes |-> SeqOf(p.g[n])]
        /\ hook = NoHook
        /\ spawn = p.spawn
        /\ obj = [n \in Nodes |-> Absent]
        /\ renderstack = <<>>
        /\ last = [op |-> "load", node |-> "-", err |-> "none", ret |-> FALSE,
                   execs |-> Zero, patches |-> Zero]
        /\ steps = 0
        /\ deferred = {}

Ctors(n) ==
    {NoCtor} \cup {<<"set", v>> : v \in 1..MaxVal}
    \cup {<<"adopt", p>> : p \in {m \in Nodes \ {n} : obj[m].exists}}

Create(n, k, c) ==
    /\ ~obj[n].exists
    /\ spawn[2] # n
    /\ Commit(create(Begin, n, 0, k, c, MaxDepth), "create", n, FALSE)

Enable(n, k) ==
    /\ ~obj[n].exists
    /\ spawn[2] # n
    /\ Commit(enable(Begin, n, 0, k), "enable", n, FALSE)

NextCreate ==
    \/ Next
    \/ \E n \in Nodes, k \in 0..MaxAnchors :
          \/ \E c \in Ctors(n) : Create(n, k, c)
          \/ Enable(n, k)

SpecCreate == InitCreate /\ [][NextCreate]_vars

----------------------------------------------------------------------------
\* Named anchors explored on their own: a script enables and creates objects
\* with anchor names; the graph of the page is empty and stays so.

NoPage ==
    /\ reads = [n \in Nodes |-> <<>>]
    /\ hook = NoHook
    /\ spawn = NoHook
    /\ obj = [n \in Nodes |-> Absent]
    /\ renderstack = <<>>
    /\ last = [op |-> "load", node |-> "-", err |-> "none", ret |-> FALSE,
               execs |-> Zero, patches |-> Zero]
    /\ steps = 0
    /\ deferred = {}

page == <<obj, renderstack, reads, hook, steps, last, deferred, spawn>>

InitNamed ==
    /\ NoPage
    /\ named = NamedInit
    /\ shared = SharedInit("browser")
    /\ dom = DomInit(1)
    /\ events = EventsInit

EnableNamed(n, a, ok) ==
    /\ named' = enableNamed(Called(named, "enable", n, a), n, a, ok)
    /\ UNCHANGED <<page, shared, dom, events>>

CreateNamed(n, a, ok) ==
    /\ named' = createNamed(Called(named, "create", n, a), n, a, ok)
    /\ UNCHANGED <<page, shared, dom, events>>

NextNamed ==
    \E n \in Nodes, a \in AnchorNames \cup {NoName}, ok \in BOOLEAN :
        \/ EnableNamed(n, a, ok)
        \/ CreateNamed(n, a, ok)

SpecNamed == InitNamed /\ [][NextNamed]_vars

----------------------------------------------------------------------------
\* Shared fields explored on their own: the script creates objects, some of
\* them with an existing renderable object as their `fields`.

SharePages ==
    {Graph({"B"}, {}, {}), Graph({}, {}, {}), Graph({"B"}, {}, {"A"})}

InitShare ==
    \E g \in SharePages, env \in Platforms :
        /\ shared = SharedInit(env)
        /\ named = NamedInit
        /\ dom = DomInit(1)
    /\ events = EventsInit
        /\ reads = [n \in Nodes |-> SeqOf(g[n])]
        /\ hook = NoHook
        /\ spawn = NoHook
        /\ obj = [n \in Nodes |-> Absent]
        /\ renderstack = <<>>
        /\ last = [op |-> "load", node |-> "-", err |-> "none", ret |-> FALSE,
                   execs |-> Zero, patches |-> Zero]
        /\ steps = 0
        /\ deferred = {}

CreateFrom(n, f, k) ==
    /\ ~obj[n].exists
    /\ obj[f].exists /\ ~obj[f].constructing /\ shared.of[f] = Own
    /\ Call(createFrom(Begin, n, f, k, shared.env, MaxDepth), "create", n, FALSE)
    /\ shared' = [shared EXCEPT !.of[n] = f]
    /\ UNCHANGED <<named, dom, events>>

AssignThrough(n, v) ==
    /\ obj[n].exists /\ shared.of[n] # Own
    /\ Seen(obj, shared, n) # <<v>>
    /\ Call(Begin, "assign", n, FALSE)
    /\ shared' = assignThrough(shared, n, v)
    /\ UNCHANGED <<named, dom, events>>

NextShare ==
    \E n \in Nodes :
        \/ \E k \in 0..MaxAnchors : Create(n, k, NoCtor)
        \/ \E f \in Nodes \ {n}, k \in 0..MaxAnchors : CreateFrom(n, f, k)
        \/ \E v \in 0..MaxVal : AssignThrough(n, v)
        \/ \E v \in 0..MaxVal : shared.of[n] = Own /\ SetField(n, v)
        \/ RenderDirect(n)
        \/ Lock(n)
        \/ Unlock(n)

SpecShare == InitShare /\ [][NextShare]_vars

----------------------------------------------------------------------------
\* The document explored on its own: one object with its anchors; its render
\* function returns any fragment, and _internal.replace is also called
\* directly on an anchor.

InitDom ==
    /\ NoPage
    /\ named = NamedInit
    /\ shared = SharedInit("browser")
    /\ \E k \in 1..MaxCopies : dom = DomInit(k)
    /\ events = EventsInit

\* The call that was made, and the anchors as it found them (history).
Wrote(d, op, html, j, clone) ==
    [d EXCEPT !.op = op, !.html = html, !.to = j, !.clone = clone,
              !.was = dom.anchor]

RenderAnchors(html) ==
    /\ dom.parses < MaxRenders
    /\ dom.cache # Cache(html)
    /\ dom' = Wrote(renderAnchors(dom, html), "render", html, 0,
                    Len(dom.anchor) > 1)
    /\ UNCHANGED <<page, named, shared, events>>

ReplaceAnchor(html, j, clone) ==
    /\ dom.parses < MaxRenders
    /\ dom' = Wrote(replaceAnchor(dom, html, j, clone), "replace", html, j,
                    clone)
    /\ UNCHANGED <<page, named, shared, events>>

Click(j, i) ==
    /\ dom.parses < MaxRenders
    /\ dom.op # "click"
    /\ dom.anchor[j][i].tag = "input"
    /\ dom' = [click(dom, j, i) EXCEPT !.op = "click", !.to = j]
    /\ UNCHANGED <<page, named, shared, events>>

NextDom ==
    \/ \E html \in Fragments :
          \/ RenderAnchors(html)
          \/ \E j \in 1..Len(dom.anchor), clone \in BOOLEAN :
                ReplaceAnchor(html, j, clone)
    \/ \E j \in 1..Len(dom.anchor) :
          \E i \in 1..Len(dom.anchor[j]) : Click(j, i)

SpecDom == InitDom /\ [][NextDom]_vars

----------------------------------------------------------------------------
\* Events explored on their own: interactive objects are created, listeners
\* installed and removed, objects collected, and events dispatched.

InitEvents ==
    /\ NoPage
    /\ named = NamedInit
    /\ shared = SharedInit("browser")
    /\ dom = DomInit(1)
    /\ events = EventsInit

Did2(ev, op, type, path, out) ==
    [ev EXCEPT !.op = op, !.type = type, !.path = path,
               !.log = out.log, !.prevented = out.prevented]

Quiet == Outcome(<<>>, FALSE)

\* The handlers of this model: click handlers of either result, and a
\* keydown handler.
Handlers ==
    {NoHandler, [type |-> "keydown", ret |-> "truthy"]}
    \cup {[type |-> "click", ret |-> r] : r \in Returns}

CreateInteractive(on, up) ==
    /\ events.counter < MaxNodes
    /\ IF up = NoNode THEN TRUE
       ELSE up <= events.counter /\ events.registry[up] = "live"
    /\ events' = Did2(createInteractive(events, on, up), "create", on.type,
                      <<>>, Quiet)
    /\ UNCHANGED <<page, named, shared, dom>>

Listen(type) ==
    /\ events' = Did2(listenForEvents(events, type), "listen", type, <<>>, Quiet)
    /\ UNCHANGED <<page, named, shared, dom>>

Unlisten(type) ==
    /\ events' = Did2(unlistenEvents(events, type), "unlisten", type, <<>>,
                      Quiet)
    /\ UNCHANGED <<page, named, shared, dom>>

UnlistenAll ==
    /\ events' = Did2(unlistenAllEvents(events), "unlistenAll", "-", <<>>, Quiet)
    /\ UNCHANGED <<page, named, shared, dom>>

Fallback(type, r) ==
    /\ events.registry[r] = "live"
    /\ events' = Did2(fallback(events, type, r), "fallback", type, <<>>, Quiet)
    /\ UNCHANGED <<page, named, shared, dom>>

Collect(i) ==
    /\ Collectable(events, i)
    /\ events' = Did2([events EXCEPT !.registry[i] = "dead"], "collect", "-",
                      <<>>, Quiet)
    /\ UNCHANGED <<page, named, shared, dom>>

Sweep ==
    /\ events' = Did2(sweep(events), "sweep", "-", <<>>, Quiet)
    /\ UNCHANGED <<page, named, shared, dom>>

\* The browser delivers an event to a listener the document holds for its
\* type.
Dispatch(type, path) ==
    /\ events.document[type] > 0
    /\ events' = Did2(events, "event", type, path, handler(events, type, path))
    /\ UNCHANGED <<page, named, shared, dom>>

NextEvents ==
    \/ \E on \in Handlers, up \in Numbers \cup {NoNode} :
          CreateInteractive(on, up)
    \/ \E type \in EventTypes :
          \/ Listen(type)
          \/ Unlisten(type)
          \/ \E r \in Numbers : Fallback(type, r)
          \/ \E path \in Paths : Dispatch(type, path)
    \/ UnlistenAll
    \/ \E i \in Numbers : Collect(i)
    \/ Sweep

SpecEvents == InitEvents /\ [][NextEvents]_vars

----------------------------------------------------------------------------
\* What the claims speak about.

\* a's cached output was built from b's output: a read b during its most recent
\* completed render.
ReadLast(o, a, b) ==
    /\ o[a].exists
    /\ \E i \in 1..Len(reads[a]) :
          /\ reads[a][i] = b
          /\ Len(o[a].cache.parts) >= i
          /\ o[a].cache.parts[i] # Undefined

\* a's cached output holds b's current final output.
Embeds(o, a, b) ==
    \E i \in 1..Len(reads[a]) :
        /\ reads[a][i] = b
        /\ Len(o[a].cache.parts) >= i
        /\ o[a].cache.parts[i] = o[b].cache_final

\* The public call that led to this state.
Did(op, n) == last.op = op /\ last.node = n /\ steps > 0

\* A tracked field of the unlocked, fully constructed b was just set, and the
\* setter returned.
SetReturned(b) ==
    /\ Did("set", b)'
    /\ last'.err = "none"
    /\ obj[b].locked = 0
    /\ ~obj[b].constructing

Notified(a, b) ==
    /\ Includes(obj[b].parents, a)
    /\ obj[a].locked = 0 /\ ~obj[a].constructing /\ obj[a].has_anchor

Uses(n) ==
    {reads[n][i] : i \in 1..Len(reads[n])}
    \cup (IF hook[1] = n THEN {hook[2]} ELSE {})

RECURSIVE Reach(_, _)
Reach(S, k) ==
    IF k = 0 THEN S ELSE Reach(S \cup UNION {Uses(x) : x \in S}, k - 1)

\* c depends on b, directly or transitively.
DependsOn(c, b) == b \in Reach({c}, Cardinality(Nodes))

\* c does not depend on b, is not invalidated by a render function and has no
\* render of its own pending.
Unrelated(c, b) == c # b /\ ~DependsOn(c, b) /\ c # hook[2] /\ ~obj[c].dirty

RendersDirty(n) ==
    \/ Did("render", n)' /\ obj[n].dirty /\ obj[n].locked = 0
    \/ Did("unlock", n)' /\ obj[n].dirty /\ obj[n].locked = 1
                         /\ ~obj[n].constructing
    \/ Did("invalidate", n)' /\ obj[n].locked = 0 /\ ~obj[n].constructing
                             /\ obj[n].has_anchor

\* n's render function ran and returned the string already cached.
SameOutput(n) ==
    /\ last'.err = "none"
    /\ last'.execs[n] >= 1
    /\ obj'[n].cache = obj[n].cache

\* C3: when the render function of an invalidated node returns a string equal
\* to the cached one, render reports false, patches none of the node's
\* anchors, invalidates no parent (no parent's render function runs, no parent
\* becomes dirty) and leaves the node's parents as they were; a patch or a
\* report of true occurs only when the string differs.  (The render function
\* is one that does not itself call invalidate.)
C3_UnchangedFrame ==
    [][\A n \in Nodes :
          RendersDirty(n) /\ last'.err = "none" /\ hook[1] # n
          => /\ SameOutput(n)
                => /\ ~last'.ret
                   /\ last'.patches[n] = 0
                   /\ obj'[n].anchor = obj[n].anchor
                   /\ obj'[n].parents = obj[n].parents
                   /\ \A i \in 1..Len(obj[n].parents) :
                         /\ last'.execs[obj[n].parents[i]] = 0
                         /\ obj'[obj[n].parents[i]].dirty
                              = obj[obj[n].parents[i]].dirty
             /\ last'.ret \/ last'.patches[n] > 0
                => obj'[n].cache # obj[n].cache]_vars

\* C3: an anchored node with a parent was invalidated and rendered the same
\* string again: nothing was patched and the parent did not run.
C3_Witness ==
    \E n \in Nodes :
        /\ Did("invalidate", n) /\ last.err = "none"
        /\ Len(obj[n].anchor) > 0 /\ Len(obj[n].parents) > 0
        /\ last.execs[n] = 1 /\ last.patches[n] = 0
        /\ \A i \in 1..Len(obj[n].parents) : last.execs[obj[n].parents[i]] = 0


\* The step is a call of Renderable.render that returned false and did
\* nothing: no render function ran, nothing was patched, no object changed.
NoOp ==
    /\ last'.err = "none" /\ ~last'.ret
    /\ last'.execs = Zero /\ last'.patches = Zero
    /\ obj' = obj /\ renderstack' = renderstack

\* C4: a render call that directly follows a render call of the same node
\* that returned, and any render call on a node that is locked or not dirty,
\* returns false, executes no render function, patches no anchor and leaves
\* dirty, the cached and final output, parents and children unchanged.
C4_Idempotent ==
    [][\A n \in Nodes :
          /\ Did("render", n)'
          /\ \/ Did("render", n) /\ last.err = "none"
             \/ obj[n].locked # 0
             \/ ~obj[n].dirty
          => NoOp]_vars

\* C4: render was called on a rendered, unlocked node with an anchor and on
\* a locked, dirty node; the latter is still dirty.
C4_Witness ==
    \E n \in Nodes :
        /\ Did("render", n) /\ last.err = "none" /\ ~last.ret
        /\ last.execs = Zero /\ last.patches = Zero
        /\ obj[n].locked # 0 /\ obj[n].dirty /\ Len(obj[n].anchor) > 0
        /\ obj[n].cache.v # obj[n].val


\* The objects n's render function interpolates whose own render function
\* will run when it does: they are dirty, or the call is making them dirty.
Pending(o, n, set) ==
    {m \in Nodes : Includes(reads[n], m) /\ o[m].exists
                   /\ (o[m].dirty \/ m \in set)}

RECURSIVE PendingReach(_, _, _, _)
PendingReach(o, S, set, k) ==
    IF k = 0 THEN S
    ELSE PendingReach(o, S \cup UNION {Pending(o, x, set) : x \in S}, set, k - 1)

\* n's render function, directly or through render functions that will run,
\* asks for n's own output.
Cyclic(o, n, set) ==
    n \in PendingReach(o, Pending(o, n, set), set, Cardinality(Nodes))

\* The object a set or invalidate call marks dirty.
Marked ==
    IF last'.op \in {"set", "invalidate"} THEN {last'.node} ELSE {}

\* C9: when the render function of a node runs and, directly or through the
\* render functions of the nodes it reads, asks for the output of that same
\* node, the call ends with the error "Fractal rendering occurred!" and not in
\* unbounded recursion, for cycles of every length: a page script that creates
\* an object reading itself fails with that error, and so does every later
\* call that runs a render function on a cycle of length 2 or 3.
C9_CycleGuard ==
    [][/\ steps = 0 /\ Includes(reads[last.node], last.node)
          => last.err = Fractal /\ last.execs[last.node] = 1
       /\ \A n \in Nodes :
             last'.execs[n] >= 1 /\ Cyclic(obj, n, Marked)
             => last'.err = Fractal]_vars

\* C9: a call ran the render functions of two distinct nodes that read each
\* other and ended with the fatal error.
C9_Witness ==
    \E n, m \in Nodes :
        /\ n # m /\ Includes(reads[n], m) /\ Includes(reads[m], n)
        /\ steps > 0 /\ last.err = Fractal
        /\ last.execs[n] = 1 /\ last.execs[m] = 1
        /\ obj[n].rendering /\ obj[m].rendering


\* C5 as stated: lock on an already locked node is not an error and
\* increments the lock count.
C5_LocksNest ==
    [][\A n \in Nodes :
          Did("lock", n)' /\ obj[n].locked >= 1
          => last'.err = "none" /\ obj'[n].locked = obj[n].locked + 1]_vars

\* C6 as stated: while a node is locked its render function is never executed
\* and none of its output is patched, whatever is called on it or on other
\* nodes; only dirty may change.
C6_LockedIsQuiet ==
    [][\A n \in Nodes :
          obj[n].locked > 0 /\ ~(last'.op = "unlock" /\ last'.node = n)
          => /\ last'.execs[n] = 0
             /\ last'.patches[n] = 0
             /\ obj'[n].cache = obj[n].cache
             /\ obj'[n].anchor = obj[n].anchor]_vars

\* C7 as stated: when unlock removes the last lock of a fully constructed node
\* whose tracked field was set while it was locked, and returns, the node is
\* not dirty and every one of its anchors shows its current state.
C7_UnlockRenders ==
    [][\A n \in Nodes :
          /\ Did("unlock", n)' /\ last'.err = "none"
          /\ obj[n].locked = 1 /\ ~obj[n].constructing /\ n \in deferred
          /\ Len(obj[n].anchor) > 0
          => /\ ~obj'[n].dirty
             /\ \A i \in 1..Len(obj'[n].anchor) :
                   obj'[n].anchor[i].v = obj'[n].val]_vars

\* C8 as stated: unlock on a node that is not locked raises an error and
\* leaves the node unchanged; the lock count is never negative.
C8_UnlockUnlocked ==
    [][\A n \in Nodes :
          /\ obj'[n].locked >= 0
          /\ Did("unlock", n)' /\ obj[n].locked = 0
             => last'.err # "none" /\ obj'[n] = obj[n]]_vars

\* C10 as stated: a call of invalidate on the node whose render function is
\* executing ends in an error, with or without an observable anchor;
\* invalidating another node raises none.
C10_ReentrantInvalidate ==
    [][\A n \in Nodes :
          last'.execs[n] >= 1 /\ hook[1] = n /\ obj[hook[2]].exists
          /\ ~obj[n].rendering /\ renderstack = <<>>
          => IF hook[2] = n THEN last'.err = Fractal
             ELSE last'.err = "none"]_vars


\* Every object but n is as it was, and n differs at most in its tracked field.
OnlyField(n) ==
    /\ \A m \in Nodes \ {n} : obj'[m] = obj[m]
    /\ obj'[n] = [obj[n] EXCEPT !.val = obj'[n].val]

\* C11: invalidate on a constructing node, explicit or through the setter of a
\* tracked field, executes no render function, patches nothing and changes no
\* object (but the field set); a create whose constructor callback sets a
\* tracked field renders the new object once, with the value set; and the
\* initial render of create neither removes the parents the new object
\* already has nor invalidates them.
C11_ConstructingQuiet ==
    [][\A n \in Nodes :
          /\ obj[n].exists /\ obj[n].constructing
             /\ (Did("set", n)' \/ Did("invalidate", n)')
             => /\ last'.err = "none"
                /\ last'.execs = Zero /\ last'.patches = Zero
                /\ OnlyField(n)
          /\ Did("create", n)' /\ last'.err = "none"
             => /\ last'.execs[n] = 1
                /\ obj'[n].cache.v = obj'[n].val
                /\ \A p \in Nodes :
                      obj[p].exists /\ Includes(obj'[p].children, n)
                      => /\ Includes(obj'[n].parents, p)
                         /\ last'.execs[p] = 0
                         /\ obj'[p].dirty = obj[p].dirty
                         /\ obj'[p].cache = obj[p].cache]_vars

\* C11: create returned for an object with an anchor whose constructor
\* callback set its tracked field: one render, showing the value set.
C11_Witness ==
    \E n \in Nodes :
        /\ Did("create", n) /\ last.err = "none"
        /\ obj[n].val = 1 /\ Len(obj[n].anchor) > 0
        /\ last.execs[n] = 1 /\ last.patches[n] = 1
        /\ obj[n].anchor[1].v = 1
        /\ ~obj[n].constructing


\* C12 as stated: every construction operation (create, and enable followed
\* by addFields) executes the render function of the new node exactly once
\* and leaves constructing false, so that a later mutation of a tracked field
\* of the unlocked node with an anchor re-renders it.
C12_ConstructsOnce ==
    [][\A n \in Nodes :
          /\ (Did("create", n)' \/ Did("enable", n)') /\ last'.err = "none"
             => last'.execs[n] = 1 /\ ~obj'[n].constructing
          /\ Did("set", n)' /\ last'.err = "none" /\ obj[n].locked = 0
             /\ Len(obj[n].anchor) > 0 /\ ~obj[n].rendering
             => last'.execs[n] >= 1 /\ obj'[n].anchor[1].v = obj'[n].val]_vars


\* n has an anchor, or a registered parent that is observable.
RECURSIVE Ancestors(_, _, _)
Ancestors(o, S, k) ==
    IF k = 0 THEN S
    ELSE Ancestors(o,
                   S \cup UNION {{o[x].parents[i] : i \in 1..Len(o[x].parents)}
                                 : x \in S},
                   k - 1)

Observable(o, n) ==
    \E a \in Ancestors(o, {n}, Cardinality(Nodes)) : Len(o[a].anchor) > 0

\* What n's render function yields for the current state of the page.
Fresh(o, n) ==
    Html(n, o[n].val,
         [i \in 1..Len(reads[n]) |->
            IF o[reads[n][i]].exists THEN o[reads[n][i]].cache_final
            ELSE Undefined])

\* n's last render saw every object it interpolates.
Tracked(o, n) ==
    \A i \in 1..Len(reads[n]) :
        o[reads[n][i]].exists => ReadLast(o, n, reads[n][i])

\* No render function reads its own output or calls invalidate.
Acyclic == \A n \in Nodes : n \notin Reach(Uses(n), Cardinality(Nodes))

Consistent(o, n) ==
    /\ ~o[n].dirty
    /\ o[n].cache = Fresh(o, n)
    /\ \A i \in 1..Len(o[n].anchor) : o[n].anchor[i] = o[n].cache_final

\* C13 as stated: when a mutation, invalidate or unlock call returns and no
\* node is locked, no node with an observable anchor is dirty, its cached
\* output is what its render function yields for the current state, and each
\* of its anchors shows its final output (on pages without read cycles and
\* without render functions that invalidate).
C13_Consistent ==
    [][/\ last'.op \in {"set", "invalidate", "unlock"}
       /\ last'.err = "none"
       /\ \A m \in Nodes : obj'[m].locked = 0
       /\ Acyclic /\ hook = NoHook
       => \A n \in Nodes :
             obj'[n].exists /\ Observable(obj', n) /\ Tracked(obj, n)
             => Consistent(obj', n)]_vars

\* ---------------------------------------------------------------------------
\* C14.  Invalidating a node that has no anchor and no anchored ancestor.
\* ---------------------------------------------------------------------------

\* A field assignment or invalidate() on an existing, constructed node that
\* is not observable, returning normally.
HeadlessCall(n) ==
    /\ Did("set", n)' \/ Did("invalidate", n)'
    /\ last'.err = "none"
    /\ obj[n].exists /\ ~obj[n].constructing
    /\ ~Observable(obj, n)

CalledNamed(n, a) ==
    /\ named'.op \in {"enable", "create"}
    /\ named'.node = n /\ named'.anchor = a

\* C15: enabling or creating an object with an anchor name that is already
\* registered raises an error, and the registry still maps every name, that
\* name included, to the object registered first.
C15_DuplicateName ==
    [][\A n \in Nodes, a \in AnchorNames :
          CalledNamed(n, a) /\ named.render[a] # NoObject
          => /\ named'.err # "none"
             /\ named'.render = named.render
             /\ ~named'.own[n].renderable \/ named.own[n].renderable]_vars

\* A second object was enabled with the name of a registered one and failed.
C15_Witness ==
    /\ named.err = Duplicate
    /\ named.anchor \in AnchorNames \ ProtoNames
    /\ named.render[named.anchor] \notin {NoObject, named.node}
    /\ named.own[named.render[named.anchor]].anchor = named.anchor

\* ---------------------------------------------------------------------------
\* C16.  addFields with a renderable object as `fields`.
\* ---------------------------------------------------------------------------

\* n was successfully extended with the fields of f, and both objects are
\* constructed and unlocked.
Sharing(n, f) ==
    /\ shared.of[n] = f
    /\ obj[n].exists /\ obj[f].exists
    /\ obj[n].locked = 0 /\ obj[f].locked = 0
    /\ ~obj[f].constructing

\* C16: the tracked property of f is shared with the object n extended by
\* it: a value assigned through n is the value seen through both objects,
\* and a change of the property re-renders both objects when both have an
\* anchor.
C16_SharedFields ==
    [][\A n, f \in Nodes :
          Sharing(n, f)
          => /\ Did("assign", n)'
                => /\ obj'[f].val = shared'.arg
                   /\ Seen(obj', shared', n) = <<shared'.arg>>
             /\ /\ Did("set", f)' /\ last'.err = "none"
                /\ Len(obj[n].anchor) > 0 /\ Len(obj[f].anchor) > 0
                => last'.execs[f] >= 1 /\ last'.execs[n] >= 1]_vars

\* ---------------------------------------------------------------------------
\* C17, C18, C19.  Writing into the anchors.
\* ---------------------------------------------------------------------------

\* The identities of the nodes of a forest.
RECURSIVE Ids(_)
Ids(kids) ==
    UNION {{kids[i].id} \cup Ids(kids[i].kids) : i \in 1..Len(kids)}

\* The last call ran _internal.replace on the j-th anchor.
Replaced(j) ==
    \/ dom.op = "replace" /\ dom.to = j
    \/ dom.op = "render" /\ dom.html # innerHTML(dom.was[j])

\* A live node is left as it was, but for the `checked` property, which is
\* set again when the node has the attribute.
Resynced(a, b) ==
    /\ b = [a EXCEPT !.checked = b.checked]
    /\ b.checked = a.checked \/ (a.attrs["checked"] # NoAttr /\ b.checked)

\* C17: when an object with two or more anchors renders a changed output,
\* every anchor shows the new output afterwards and no node belongs to the
\* subtrees of two anchors.
C17_FanOut ==
    dom.op = "render" /\ Len(dom.anchor) >= 2
    => /\ \A j \in 1..Len(dom.anchor) : innerHTML(dom.anchor[j]) = dom.html
       /\ \A j, k \in 1..Len(dom.anchor) :
             j # k => Ids(dom.anchor[j]) \cap Ids(dom.anchor[k]) = {}

\* Two anchors that showed an earlier output were patched with copies.
C17_Witness ==
    /\ dom.op = "render" /\ Len(dom.anchor) = 2 /\ dom.parses = 2
    /\ Replaced(1) /\ Replaced(2)
    /\ dom.was[1] # <<>> /\ dom.was[2] # <<>>
    /\ dom.html # <<>>
    /\ \E x \in Ids(dom.anchor[1]) : x.made = "clone" /\ x.copy = 1
    /\ \E x \in Ids(dom.anchor[2]) : x.made = "clone" /\ x.copy = 2

\* The node _internal.replace inserts for the i-th top-level node of the
\* update parsed last.
Update(i, j) ==
    [parse |-> dom.parses, path |-> <<i>>,
     copy |-> IF dom.clone THEN j ELSE 0,
     made |-> IF dom.clone THEN "clone" ELSE "parsed"]

\* C18: after _internal.replace(update, anchor, clone), for either value of
\* clone, the children of the anchor are structurally equal to the children
\* the update had: the live children beyond the update are removed, and the
\* children of the update beyond the live ones are appended (as copies when
\* clone is set).
C18_Structure ==
    \A j \in 1..Len(dom.anchor) :
        Replaced(j)
        => /\ innerHTML(dom.anchor[j]) = dom.html
           /\ Len(dom.anchor[j]) = Len(dom.html)
           /\ \A i \in 1..Len(dom.html) :
                 i > Len(dom.was[j]) => dom.anchor[j][i].id = Update(i, j)

\* A fragment of two nodes was patched to one of another tag name: the
\* second live node is gone, the first one was rebuilt.
C18_Witness ==
    /\ dom.op = "replace" /\ dom.parses = 2
    /\ Len(dom.was[dom.to]) = 2 /\ Len(dom.html) = 1
    /\ dom.was[dom.to][1].type = "element" /\ dom.html[1].type = "element"
    /\ dom.was[dom.to][1].tag # dom.html[1].tag
    /\ Len(dom.anchor[dom.to]) = 1

\* The live nodes a paired with the nodes u of the update, and the nodes b
\* at their places afterwards: an element of the same tag name is the same
\* node, and a node whose serialization equals the update's is untouched.
RECURSIVE Untouched(_, _, _)
Untouched(a, b, u) ==
    \A i \in 1..Len(a) :
        i <= Len(u)
        => /\ outerHTML(a[i]) = u[i] => b[i] = a[i]
           /\ a[i].type = "element" /\ u[i].type = "element"
              => /\ a[i].tag = u[i].tag => b[i].id = a[i].id
                 /\ Untouched(a[i].kids, b[i].kids, u[i].kids)

\* C19 as stated: a live element paired with an updated element of the same
\* tag name keeps its identity, and a live element whose serialized subtree
\* equals the paired update's is not mutated at all.
C19_Original ==
    \A j \in 1..Len(dom.anchor) :
        Replaced(j) => Untouched(dom.was[j], dom.anchor[j], dom.html)

\* The same, with the `checked` property of an untouched node set again from
\* its attribute.
RECURSIVE Minimal(_, _, _)
Minimal(a, b, u) ==
    \A i \in 1..Len(a) :
        i <= Len(u)
        => /\ outerHTML(a[i]) = u[i] => Resynced(a[i], b[i])
           /\ a[i].type = "element" /\ u[i].type = "element"
              => /\ a[i].tag = u[i].tag => b[i].id = a[i].id
                 /\ Minimal(a[i].kids, b[i].kids, u[i].kids)

\* C19 amended: a live element paired with an updated element of the same
\* tag name is the same node afterwards; a live node whose serialization
\* equals the paired update's keeps its identity, attributes and subtree,
\* and only its live `checked` property is set again when it has that
\* attribute.
C19_Minimal ==
    \A j \in 1..Len(dom.anchor) :
        Replaced(j) => Minimal(dom.was[j], dom.anchor[j], dom.html)

UlA == Element("li", NoAttr, <<Text("a")>>)
UlAB == <<Element("ul", NoAttr, <<UlA, Element("li", NoAttr, <<Text("b")>>)>>)>>
UlAC == <<Element("ul", NoAttr, <<UlA, Element("li", NoAttr, <<Text("c")>>)>>)>>

\* <ul><li>a</li><li>b</li></ul> was patched to <ul><li>a</li><li>c</li></ul>:
\* the ul, both li and the first text are the nodes they were, the second
\* text is a new node.
C19_Witness ==
    \E j \in 1..Len(dom.anchor) :
        /\ Replaced(j)
        /\ innerHTML(dom.was[j]) = UlAB /\ dom.html = UlAC
        /\ dom.anchor[j][1].id = dom.was[j][1].id
        /\ dom.anchor[j][1].kids[1] = dom.was[j][1].kids[1]
        /\ dom.anchor[j][1].kids[2].id = dom.was[j][1].kids[2].id
        /\ dom.anchor[j][1].kids[2].kids[1].id
              # dom.was[j][1].kids[2].kids[1].id
        /\ dom.anchor[j][1].kids[2].kids[1].value = "c"

\* ---------------------------------------------------------------------------
\* C20.  Event routing: scope and bubbled.
\* ---------------------------------------------------------------------------

\* The identities on the path of the last event whose object is alive.
Live == SelectSeq(Flat(events.path, 1), LAMBDA x : Deref(events, x.id) # NoNode)

\* The first (innermost) live object resolved on the walk.
Scope == IF Live = <<>> THEN NoNode ELSE Live[1].id

\* The live identities on the path whose object handles the event's type.
Hits == SelectSeq(Live, LAMBDA x : HasHandler(events, x.id, events.type))

\* The calls of the last event made on the walk.
Walked == SelectSeq(events.log, LAMBDA c : c.phase = "walk")

Calls(n) == {i \in 1..Len(events.log) : events.log[i].node = n}

\* Every handler invoked on the walk got the innermost live object as scope
\* and bubbled = (it is not the scope itself).
ScopeAndBubbled ==
    \A i \in 1..Len(events.log) :
        events.log[i].phase = "walk"
        => /\ events.log[i].scope = Scope
           /\ events.log[i].bubbled = (events.log[i].node # Scope)

\* No handler cancels the event and no fallback object is set.
Undisturbed ==
    /\ \A n \in Numbers : events.node[n].on.ret # "falsy"
    /\ events.listeners[events.type].fallback = NoNode

\* C20 as stated: scope is the innermost live object and bubbled tells
\* whether the handling object is another one; a handler is invoked once with
\* bubbled = false when the target element carries its object's identity,
\* and with bubbled = true when the identity is found on an ancestor only.
C20_Original ==
    events.op = "event"
    => /\ ScopeAndBubbled
       /\ Undisturbed
          => \A n \in Numbers :
                HasHandler(events, Deref(events, n), events.type)
                => /\ n \in Range(events.path[1])
                      => /\ Cardinality(Calls(n)) = 1
                         /\ \A i \in Calls(n) : ~events.log[i].bubbled
                   /\ /\ n \notin Range(events.path[1])
                      /\ Len(events.path) = 2 /\ n \in Range(events.path[2])
                      => /\ Cardinality(Calls(n)) = 1
                         /\ \A i \in Calls(n) : events.log[i].bubbled

\* The handlers the walk reaches: the hits up to the first that returns a
\* falsy value.
RECURSIVE Reached(_, _)
Reached(hits, i) ==
    IF i > Len(hits) THEN hits
    ELSE IF events.node[hits[i].id].on.ret = "falsy" THEN SubSeq(hits, 1, i)
    ELSE Reached(hits, i + 1)

\* C20 amended: every handler invoked on the walk gets scope = the innermost
\* live object resolved on the walk and bubbled = (the handling object is not
\* the scope); so a handler is invoked with bubbled = false exactly when its
\* object is the innermost live object on the path, whether its identity is
\* on the target or on an ancestor, and with bubbled = true otherwise.  The
\* walk invokes the handler once for each live identity on the path that
\* handles the type, in path order, up to the first handler that returns a
\* falsy value.  A handler invoked from the fallback chain gets bubbled =
\* true and as scope the innermost live object of the walk, or the fallback
\* object when the walk resolved none.
C20_Routing ==
    events.op = "event"
    => /\ ScopeAndBubbled
       /\ Len(Walked) = Len(Reached(Hits, 1))
       /\ \A i \in 1..Len(Walked) :
             /\ Walked[i].node = Reached(Hits, 1)[i].id
             /\ Walked[i].root = Reached(Hits, 1)[i].root
             /\ Walked[i].bubbled = (i > 1 \/ Walked[i].node # Live[1].id)
       /\ \A i \in 1..Len(events.log) :
             events.log[i].phase = "fallback"
             => /\ events.log[i].bubbled
                /\ events.log[i].scope =
                      Coalesce(Scope, events.listeners[events.type].fallback)

\* Two objects were resolved through the list of an ancestor of the target:
\* the handler of the first was called with bubbled = false, that of the
\* second with bubbled = true, both with the first as scope.
C20_Witness ==
    /\ events.op = "event"
    /\ Len(events.path) = 2 /\ events.path[1] = <<>>
    /\ Len(Walked) = 2
    /\ Walked[1].root = 2 /\ ~Walked[1].bubbled
    /\ Walked[2].root = 2 /\ Walked[2].bubbled
    /\ Walked[2].scope = Walked[1].node

\* ---------------------------------------------------------------------------
\* C21.  A handler that returns a falsy value stops the event.
\* ---------------------------------------------------------------------------

\* The i-th call of the last event returned a falsy value.
Falsy(i) == events.node[events.log[i].node].on.ret = "falsy"

\* C21: a handler that returns a falsy value cancels the default action and
\* ends the routing: no handler is invoked after it, on the walk or from the
\* fallback chain; after a truthy result the walk goes on, so that without a
\* falsy result every live identity on the path that handles the type is
\* served and the default action is not cancelled.
C21_FalsyStops ==
    events.op = "event"
    => /\ \A i \in 1..Len(events.log) : Falsy(i) => i = Len(events.log)
       /\ events.prevented = (\E i \in 1..Len(events.log) : Falsy(i))
       /\ (\A i \in 1..Len(Walked) : ~Falsy(i))
             => Len(Walked) = Len(Hits)

\* The first of two handlers on the path returned a falsy value: it is the
\* only one invoked, although a fallback object with a handler is set.
C21_Witness ==
    /\ events.op = "event"
    /\ Len(Hits) = 2
    /\ Len(events.log) = 1 /\ Falsy(1) /\ events.log[1].node = Hits[1].id
    /\ events.prevented
    /\ HasHandler(events, events.listeners[events.type].fallback, events.type)

\* ---------------------------------------------------------------------------
\* C22.  The fallback object is consulted only when the walk matched nothing.
\* ---------------------------------------------------------------------------

\* The calls of the last event made from the fallback loop of lines 754-769.
FellBack == SelectSeq(events.log, LAMBDA c : c.phase = "fallback")

\* C22: when at least one handler was invoked on the walk from the target
\* upwards, no handler of the fallback object or of its chain of last parents
\* is invoked for that event, whatever the handlers of the walk returned.
C22_FallbackOnlyUnmatched ==
    (events.op = "event" /\ Walked # <<>>) => FellBack = <<>>

\* ---------------------------------------------------------------------------
\* C23.  At most one document listener per event type.
\* ---------------------------------------------------------------------------

\* The document holds exactly the listeners of the table, one for a type.
OneListener ==
    \A t \in EventTypes :
        events.document[t] = IF events.listeners[t].installed THEN 1 ELSE 0

\* unlistenEvents and unlistenAllEvents leave no listener for the types they
\* remove.
Unlistened ==
    /\ events.op = "unlisten"
          => /\ events.document[events.type] = 0
             /\ ~events.listeners[events.type].installed
    /\ events.op = "unlistenAll"
          => \A t \in EventTypes :
                 events.document[t] = 0 /\ ~events.listeners[t].installed

\* Listening for a type that has a listener (by listenForEvents or by the
\* construction of an object with a handler of the type) changes nothing:
\* the listener and its fallback object are kept.
Relisten ==
    \A t \in EventTypes :
        (/\ events'.op \in {"listen", "create"}
         /\ events'.type = t
         /\ events.listeners[t].installed)
        => /\ events'.listeners = events.listeners
           /\ events'.document = events.document

\* C23: after every sequence of listenForEvents, unlistenEvents,
\* unlistenAllEvents and constructions of objects with handlers, the document
\* holds at most one listener for an event type; listening for a type that
\* is listened for is a no-op that keeps the listener; after unlistenEvents
\* of a type or unlistenAllEvents no listener is left for the removed types.
C23_OneListener == [](OneListener /\ Unlistened) /\ [][Relisten]_vars

\* listenForEvents was called for a type whose listener has a fallback
\* object: the listener is the one installed before the call.
C23_Witness ==
    /\ events.op = "listen"
    /\ events.listeners[events.type].fallback # NoNode
    /\ events.document[events.type] = 1

\* ---------------------------------------------------------------------------
\* C30.  Collected objects and the sweep of the registry.
\* ---------------------------------------------------------------------------

\* No call of the last event was made on, or with the scope of, an identity
\* whose object is collected (or was never registered).
DeadSkipped ==
    events.op = "event"
    => \A i \in 1..Len(events.log) :
          /\ events.registry[events.log[i].node] = "live"
          /\ events.registry[events.log[i].scope] = "live"

\* A second sweep has nothing left to do.
SweepTwice == sweep(sweep(events)) = sweep(events)

\* The sweep deletes the entries of collected objects and nothing else.
SweepFrame ==
    events'.op = "sweep"
    => /\ \A i \in Numbers :
             /\ events'.registry[i] = "live" <=> events.registry[i] = "live"
             /\ events'.registry[i] # "dead"
             /\ events.registry[i] = "absent" => events'.registry[i] = "absent"
       /\ events'.node = events.node
       /\ events'.listeners = events.listeners
       /\ events'.document = events.document
       /\ events'.counter = events.counter
       /\ events'.log = <<>> /\ ~events'.prevented
       /\ UNCHANGED <<obj, renderstack, dom, named, shared>>

\* C30: in the routing of an event an identity whose object was collected
\* is passed over: no handler is called on it and it is never the scope.
\* The sweep of the registry removes exactly the entries of collected
\* objects, keeps the entry of every live object, leaves every object, the
\* listeners and the document as they are, calls no handler, and a second
\* sweep changes nothing.
C30_DeadAndSweep == [](DeadSkipped /\ SweepTwice) /\ [][SweepFrame]_vars

\* An event whose innermost identity belongs to an object that was collected
\* and swept; the handler of a live object further up was called.
C30_Witness ==
    /\ events.op = "event"
    /\ Flat(events.path, 1) # <<>>
    /\ events.node[Flat(events.path, 1)[1].id].made
    /\ events.registry[Flat(events.path, 1)[1].id] = "absent"
    /\ Walked # <<>>

\* ---------------------------------------------------------------------------
\* Render functions that stop reading an object.  What a render function
\* interpolates may depend on state the library does not track; Switch makes
\* n's function leave out some of the objects it read so far.  The function
\* runs again when n is next rendered.
\* ---------------------------------------------------------------------------

SwitchPages ==
    {Page(Graph({"B"}, {}, {}), <<"B", "A">>, ks, NoHook) :
        ks \in AnyAnchors(<<"A", "B">>)}
    \cup UNION {{Page(p[1], p[2], ks, NoHook) : ks \in SomeAnchors(p[2])} :
                  p \in {<<Graph({"B", "C"}, {}, {"B"}), <<"B", "C", "A">>>>,
                         <<Graph({"B"}, {"C"}, {}), <<"C", "B", "A">>>>,
                         <<Graph({"B"}, {}, {"B"}), <<"B", "C", "A">>>>}}

InitSwitch ==
    \E p \in SwitchPages :
        /\ Elsewhere
        /\ reads = [n \in Nodes |-> SeqOf(p.g[n])]
        /\ hook = p.hook
        /\ Loaded(Built(Empty(p.hook), p.script, p.ks, 1), p.script[Len(p.script)])
        /\ steps = 0
        /\ deferred = {}
        /\ spawn = NoHook

Switch(n, S) ==
    /\ steps < MaxSteps
    /\ obj[n].exists
    /\ S # Uses(n)
    /\ reads' = [reads EXCEPT ![n] = SeqOf(S)]
    /\ steps' = steps + 1
    /\ last' = [op |-> "switch", node |-> n, err |-> "none", ret |-> FALSE,
                execs |-> Zero, patches |-> Zero]
    /\ UNCHANGED <<obj, renderstack, hook, deferred, spawn, others>>

NextSwitch ==
    \/ \E n \in Nodes :
          \/ \E v \in 0..MaxVal : SetField(n, v)
          \/ Invalidate(n)
          \/ Render(n)
          \/ RenderDirect(n)
          \/ Lock(n)
          \/ Unlock(n)
    \/ \E n \in Nodes : \E S \in SUBSET Uses(n) : Switch(n, S)

SpecSwitch == InitSwitch /\ [][NextSwitch]_vars

\* No call is in progress or was cut short by an exception.
AtRest == renderstack = <<>> /\ \A n \in Nodes : ~obj[n].rendering

\* p's most recent render read c's output: the output is part of p's cache.
ReadIn(o, p, c) ==
    \E i \in 1..Len(o[p].cache.parts) : o[p].cache.parts[i].id = c

\* ---------------------------------------------------------------------------
\* C24.  The parents of an object are the objects that read it.
\* ---------------------------------------------------------------------------

\* C24 as stated: when no render is in progress, p is a parent of c exactly
\* if p read c's output during p's most recent render; in particular p stays
\* a parent of c when c's changed render could not re-render p at once.
C24_Original ==
    AtRest
    => \A p \in Nodes, c \in Nodes :
          obj[p].exists /\ obj[c].exists
          => (Includes(obj[c].parents, p) <=> ReadIn(obj, p, c))

\* C24 amended: when no render is in progress, every parent p of c read c's
\* output during p's most recent render; and on pages without read cycles
\* and without render functions that invalidate, an object p that read c
\* during its most recent render and is not dirty is a parent of c.  (A
\* parent that c's changed render invalidated without re-rendering it is
\* dirty and no longer a parent of c.)
C24_Parents ==
    AtRest
    => \A p \in Nodes, c \in Nodes :
          obj[p].exists /\ obj[c].exists
          => /\ Includes(obj[c].parents, p) => ReadIn(obj, p, c)
             /\ (Acyclic /\ hook = NoHook /\ ~obj[p].dirty /\ ReadIn(obj, p, c))
                   => Includes(obj[c].parents, p)

\* c was assigned and rendered; its parent p was re-rendered and is a parent
\* again, its parent q was only marked dirty and is no parent any more.
C24_Witness ==
    \E p \in Nodes, q \in Nodes, c \in Nodes :
        /\ Did("set", c) /\ last.err = "none" /\ AtRest
        /\ last.execs[c] = 1 /\ last.execs[p] = 1 /\ last.execs[q] = 0
        /\ ReadIn(obj, p, c) /\ ~obj[p].dirty /\ Includes(obj[c].parents, p)
        /\ ReadIn(obj, q, c) /\ obj[q].dirty /\ ~Includes(obj[c].parents, q)

\* ---------------------------------------------------------------------------
\* C25.  An object that is no longer read forgets its reader.
\* ---------------------------------------------------------------------------

\* No edge is left between c and an object p whose most recent render did
\* not read c.
NoStaleEdge ==
    AtRest
    => \A p \in Nodes, c \in Nodes :
          obj[p].exists /\ obj[c].exists /\ ~ReadIn(obj, p, c)
          => ~Includes(obj[c].parents, p) /\ ~Includes(obj[p].children, c)

\* An assignment to c leaves alone a rendered object p whose most recent
\* render did not read c (and that reads no object that depends on c).
NotNotified ==
    \A p \in Nodes, c \in Nodes :
        (/\ Did("set", c)' /\ last'.err = "none"
         /\ obj[p].exists /\ obj[c].exists
         /\ ~obj[p].dirty /\ ~ReadIn(obj, p, c)
         /\ p \notin Ancestors(obj, {c}, Cardinality(Nodes)))
        => last'.execs[p] = 0 /\ ~obj'[p].dirty

\* C25: once p has rendered again without reading c, which it read in the
\* render before, p is not among c's parents and c is not among p's
\* children, and a later assignment to a field of c neither executes p's
\* render function nor marks p dirty.
C25_NoStaleEdges == []NoStaleEdge /\ [][NotNotified]_vars

\* On every page explored A's render function read B when A was created.
ReadAtFirst ==
    \A p \in SwitchPages :
        /\ "B" \in p.g["A"]
        /\ \E i \in 1..Len(p.script), j \in 1..Len(p.script) :
              i < j /\ p.script[i] = "B" /\ p.script[j] = "A"

\* The anchored A has rendered without B, which it read before; B was then
\* assigned and rendered, and A was left alone.
C25_Witness ==
    /\ ReadAtFirst
    /\ Did("set", "B") /\ last.err = "none" /\ AtRest
    /\ ~Includes(reads["A"], "B") /\ ~ReadIn(obj, "A", "B")
    /\ Len(obj["A"].anchor) > 0 /\ obj["A"].cache # Null
    /\ last.execs["B"] = 1 /\ last.execs["A"] = 0 /\ ~obj["A"].dirty
    /\ ~Includes(obj["B"].parents, "A")

\* ---------------------------------------------------------------------------
\* C26.  invalidate on an object whose has_anchor flag is clear.
\* ---------------------------------------------------------------------------

\* The objects reached from S over parent links, going on from unlocked
\* objects only.
RECURSIVE Up(_, _, _)
Up(o, S, k) ==
    IF k = 0 THEN S
    ELSE Up(o,
            S \cup UNION {{o[x].parents[i] : i \in 1..Len(o[x].parents)}
                          : x \in {y \in S : o[y].locked = 0}},
            k - 1)

\* The ancestors of n that a notification can reach.
Above(n) == Up(obj, {n}, Cardinality(Nodes)) \ {n}

\* The same over the links to fully constructed parents whose latest render
\* read the child.
RECURSIVE UpBuilt(_, _, _)
UpBuilt(o, S, k) ==
    IF k = 0 THEN S
    ELSE UpBuilt(o,
                 S \cup UNION {{p \in Nodes : /\ Includes(o[x].parents, p)
                                              /\ ~o[p].constructing
                                              /\ ReadIn(o, p, x)}
                               : x \in {y \in S : o[y].locked = 0}},
                 k - 1)

AboveBuilt(n) == UpBuilt(obj, {n}, Cardinality(Nodes)) \ {n}

\* A field assignment or invalidate() on the unlocked, constructed n whose
\* has_anchor flag is clear, returning normally (n is not an object that a
\* render function replaces by a new one).
BubbleCall(n) ==
    /\ Did("set", n)' \/ Did("invalidate", n)'
    /\ spawn = NoHook
    /\ last'.err = "none"
    /\ obj[n].exists /\ ~obj[n].constructing /\ obj[n].locked = 0
    /\ ~obj[n].has_anchor

\* C26 as stated: such a call executes no render function of n, patches
\* nothing for n and leaves n dirty; every ancestor reachable through unlocked
\* parents is dirty or re-rendered when the call returns, and an ancestor
\* with has_anchor set is re-rendered and holds n's latest output.
C26_Original ==
    [][\A n \in Nodes :
          BubbleCall(n)
          => /\ last'.execs[n] = 0 /\ last'.patches[n] = 0 /\ obj'[n].dirty
             /\ \A a \in Above(n) :
                   /\ obj'[a].dirty \/ last'.execs[a] >= 1
                   /\ obj[a].has_anchor /\ obj[a].locked = 0
                      => /\ last'.execs[a] >= 1
                         /\ obj'[a].cache = Fresh(obj', a)]_vars

\* C26 amended: such a call patches nothing for n; every fully constructed
\* parent of n is dirty or re-rendered when it returns.  n itself is left
\* dirty with no render function of n executed, unless a re-rendered
\* ancestor read n: then n was rendered for it and holds its latest state.
\* When no ancestor has has_anchor set, nothing at all is rendered or patched
\* and n and all its ancestors reachable through unlocked, fully constructed
\* parents that read their child are dirty.  After a field assignment every such ancestor is dirty
\* or re-rendered, and an unlocked one with has_anchor set is re-rendered and
\* holds n's latest output.
C26_Headless ==
    [][\A n \in Nodes :
          BubbleCall(n)
          => /\ last'.patches[n] = 0
             /\ \A p \in Nodes :
                   Includes(obj[n].parents, p) /\ ~obj[p].constructing
                   => obj'[p].dirty \/ last'.execs[p] >= 1
             /\ \/ last'.execs[n] = 0 /\ obj'[n].dirty
                \/ /\ last'.execs[n] >= 1 /\ ~obj'[n].dirty
                   /\ obj'[n].cache.v = obj'[n].val
                   /\ \E a \in Above(n) : last'.execs[a] >= 1
             /\ (\A a \in Above(n) : ~obj[a].has_anchor)
                => /\ last'.execs = Zero /\ last'.patches = Zero
                   /\ \A a \in AboveBuilt(n) \cup {n} : obj'[a].dirty
             /\ Did("set", n)'
                => \A a \in AboveBuilt(n) :
                      /\ obj'[a].dirty \/ last'.execs[a] >= 1
                      /\ obj[a].has_anchor /\ obj[a].locked = 0
                         => /\ last'.execs[a] >= 1
                            /\ obj'[a].cache = Fresh(obj', a)]_vars

\* n, read by p, read by g, none of them with has_anchor set: n was assigned
\* and all three are dirty, nothing was rendered.
C26_Witness ==
    \E n \in Nodes, p \in Nodes, g \in Nodes :
        /\ Did("set", n) /\ last.err = "none"
        /\ Includes(obj[n].parents, p) /\ Includes(obj[p].parents, g)
        /\ \A m \in {n, p, g} :
              obj[m].dirty /\ ~obj[m].has_anchor /\ obj[m].locked = 0
        /\ obj[n].cache.v # obj[n].val
        /\ last.execs = Zero /\ last.patches = Zero

\* ---------------------------------------------------------------------------
\* C27.  The rendering flag and the render stack between calls.
\* ---------------------------------------------------------------------------

\* C27: whenever control is back at top level (every state of this model is
\* one), also after a call that ended with the cyclic-rendering error or
\* another exception, no object has rendering set and the render stack is
\* empty.
C27_CleanAtTopLevel ==
    /\ renderstack = <<>>
    /\ \A n \in Nodes : obj[n].exists => ~obj[n].rendering

\* ---------------------------------------------------------------------------
\* C28.  An object with an anchor of its own keeps has_anchor set.
\* ---------------------------------------------------------------------------

\* C28: in every reachable state an object that has at least one anchor
\* element of its own has has_anchor set, whatever calls of invalidate,
\* render, lock and unlock (and field assignments) were made.
C28_AnchoredIsObservable ==
    \A n \in Nodes :
        obj[n].exists /\ Len(obj[n].anchor) > 0 => obj[n].has_anchor

\* invalidate has recomputed the flag of an anchored object that has no
\* parent, while no other object has the flag set, and has rendered the
\* object into its anchor.
C28_Witness ==
    \E n \in Nodes :
        /\ Did("set", n) /\ last.err = "none"
        /\ Len(obj[n].anchor) > 0 /\ obj[n].has_anchor
        /\ obj[n].parents = <<>>
        /\ \A p \in Nodes : obj[p].exists /\ p # n => ~obj[p].has_anchor
        /\ \E p \in Nodes : obj[p].exists /\ p # n
        /\ last.patches[n] = 1

\* ---------------------------------------------------------------------------
\* C29.  has_anchor of an object without anchors of its own.
\* ---------------------------------------------------------------------------

\* Some object of the sequence has has_anchor set.
Flagged(o, S) == \E i \in 1..Len(S) : o[S[i]].has_anchor

\* A field assignment or invalidate() on the unlocked, constructed n without
\* anchors whose has_anchor flag is set: the flag is recomputed (line 421)
\* and n is rendered (line 422).  No earlier call was cut short.
Recomputed(n) ==
    /\ Did("set", n)' \/ Did("invalidate", n)'
    /\ last'.err = "none" /\ AtRest
    /\ obj[n].exists /\ ~obj[n].constructing /\ obj[n].locked = 0
    /\ obj[n].has_anchor /\ obj[n].anchor = <<>>

\* C29 as stated: the flag of an object without anchors is never clear while
\* a registered parent has the flag set, and after the recomputation and
\* render of an invalidation it is the OR of the flags of the registered
\* parents (so that reading an anchored object does not by itself set it).
C29_Original ==
    /\ [](\A n \in Nodes :
             obj[n].exists /\ obj[n].anchor = <<>>
             /\ Flagged(obj, obj[n].parents)
             => obj[n].has_anchor)
    /\ [][\A n \in Nodes :
             Recomputed(n)
             => (obj'[n].has_anchor <=> Flagged(obj', obj'[n].parents))]_vars

\* C29 amended: after the recomputation and render of an invalidation the
\* flag of an object without anchors is set exactly if a parent registered
\* before the call, a parent registered after it or an object it read has
\* the flag set.  Between calls an object read by a registered parent that
\* has an anchor of its own has the flag set, and so has every object whose
\* latest render read an object with an anchor of its own.
C29_Flag ==
    /\ [](AtRest
          => \A p \in Nodes, c \in Nodes :
                obj[p].exists /\ obj[c].exists /\ ReadIn(obj, p, c)
                => /\ Includes(obj[c].parents, p) /\ Len(obj[p].anchor) > 0
                      => obj[c].has_anchor
                   /\ Len(obj[c].anchor) > 0 => obj[p].has_anchor)
    /\ [][\A n \in Nodes :
             Recomputed(n)
             => (obj'[n].has_anchor
                 <=> \/ Flagged(obj, obj[n].parents)
                     \/ Flagged(obj', obj'[n].parents)
                     \/ Flagged(obj', obj'[n].children))]_vars

\* p has no anchor and no parent; it was assigned, its flag was recomputed,
\* and its render read the anchored c: the flag is set and p was rendered at
\* once.
C29_Witness ==
    \E p \in Nodes, c \in Nodes :
        /\ Did("set", p) /\ last.err = "none" /\ AtRest
        /\ obj[p].anchor = <<>> /\ obj[p].parents = <<>>
        /\ ReadIn(obj, p, c) /\ Len(obj[c].anchor) > 0
        /\ \A m \in Nodes \ {p, c} : ~obj[m].exists
        /\ obj[p].has_anchor
        /\ last.execs[p] = 1 /\ last.patches = Zero

\* ---------------------------------------------------------------------------
\* C31: bounded graph growth of a non-anchored graph
\* ---------------------------------------------------------------------------

NoDup(seq) == \A i, j \in 1..Len(seq) : seq[i] = seq[j] => i = j

\* The objects whose render function reads n, and the objects n's reads.
Readers(n) == {p \in Nodes : obj[p].exists /\ Includes(reads[p], n)}

ReadBy(n) == {c \in Nodes : obj[c].exists /\ Includes(reads[n], c)}

\* No object of the page has an anchor: invalidation only marks and bubbles
\* (lines 423-426), rendering happens through toString alone.
Bare == \A n \in Nodes : obj[n].anchor = <<>>

=============================================================================
